---- MODULE Spec2Model ----
(***************************************************************************)
(* Tool routing policy and session admission control engine:               *)
(* CipherRoutingEngine (tests-and-notes/routing_enforcement_system.py) and *)
(* CipherRoutingMiddleware (cipher_routing_middleware.py).                 *)
(*                                                                         *)
(* Text is a sequence of one-character strings.  The regular expressions   *)
(* of the source are all of the shape  lit  or  lit.*lit(.*lit)*  and are  *)
(* modelled as the sequence of their literal segments.  Floats are exact   *)
(* rationals <<numerator, denominator>>.                                   *)
(***************************************************************************)
EXTENDS Integers, Sequences, FiniteSets, TLC

\* ------------------------------------------------------------------ bounds
\* session operations (sessions created plus calls recorded) in one behaviour
\* of SpecSession
MaxOps == 3

\* ledger appends, sessions created and calls recorded in one behaviour of Spec
MaxJointOps == 2

\* largest max_calls handed to track_session_performance
MaxBudget == 2

\* clock ticks (days) in one behaviour
MaxTime == 1

\* rows of table routing_decisions when only the ledger is exercised
MaxLedger == 6

\* operations when detect_domain is called between them
MaxClassifyOps == 2

\* detect_domain calls on one input
MaxRepeat == 2

\* engine calls one thread issues
MaxThreadCalls == 2
MaxAgentCalls == 9
MaxOutcomeCalls == 2
MaxHandlerCalls == 3

\* ------------------------------------------------------------ text helpers
UpperCase ==
  <<"A","B","C","D","E","F","G","H","I","J","K","L","M",
    "N","O","P","Q","R","S","T","U","V","W","X","Y","Z">>

LowerCase ==
  <<"a","b","c","d","e","f","g","h","i","j","k","l","m",
    "n","o","p","q","r","s","t","u","v","w","x","y","z">>

\* str.lower() on one character
lower_char(c) ==
  IF \E i \in 1..26 : UpperCase[i] = c
  THEN LowerCase[CHOOSE i \in 1..26 : UpperCase[i] = c]
  ELSE c

RECURSIVE lower_from(_, _)
lower_from(s, i) ==
  IF i > Len(s) THEN <<>> ELSE <<lower_char(s[i])>> \o lower_from(s, i + 1)

\* str.lower()
lower(s) ==
  lower_from(s, 1)

\* the literal lit occurs in s at position i
MatchAt(s, lit, i) ==
  /\ i >= 1
  /\ i + Len(lit) - 1 <= Len(s)
  /\ \A j \in 1..Len(lit) : s[i + j - 1] = lit[j]

\* leftmost position >= from at which lit occurs in s, 0 when there is none
FirstAt(s, lit, from) ==
  LET hits == {i \in from..Len(s) : MatchAt(s, lit, i)}
  IN  IF hits = {} THEN 0 ELSE CHOOSE i \in hits : \A k \in hits : i <= k

\* the segments segs[k..] occur in this order, without overlap, at or after from
RECURSIVE SegsFrom(_, _, _, _)
SegsFrom(s, segs, k, from) ==
  IF k > Len(segs) THEN TRUE
  ELSE LET i == FirstAt(s, segs[k], from)
       IN  i # 0 /\ SegsFrom(s, segs, k + 1, i + Len(segs[k]))

\* re.search(pattern, s) on single-line text
re_search(pattern, s) ==
  SegsFrom(s, pattern, 1, 1)

\* non-overlapping occurrences of a literal, scanning left to right
RECURSIVE CountLiteral(_, _, _)
CountLiteral(s, lit, from) ==
  LET i == FirstAt(s, lit, from)
  IN  IF i = 0 THEN 0 ELSE 1 + CountLiteral(s, lit, i + Len(lit))

\* len(re.findall(pattern, s)): a pattern with .* is greedy up to the last
\* occurrence of its final segment, so single-line text holds at most one match
re_findall_len(pattern, s) ==
  IF Len(pattern) = 1 THEN CountLiteral(s, pattern[1], 1)
  ELSE IF re_search(pattern, s) THEN 1 ELSE 0

\* ---------------------------------------------------------------- rationals
RECURSIVE Gcd(_, _)
Gcd(a, b) ==
  IF b = 0 THEN a ELSE Gcd(b, a % b)

Abs(x) ==
  IF x < 0 THEN -x ELSE x

\* the reduced fraction n/d with a positive denominator
Rat(n, d) ==
  LET g == Gcd(Abs(n), Abs(d))
      sgn == IF d < 0 THEN -1 ELSE 1
  IN  <<sgn * (n \div g), sgn * (d \div g)>>

RAdd(x, y) ==
  Rat(x[1] * y[2] + y[1] * x[2], x[2] * y[2])

RMul(x, y) ==
  Rat(x[1] * y[1], x[2] * y[2])

RDiv(x, y) ==
  Rat(x[1] * y[2], x[2] * y[1])

RInt(n) ==
  <<n, 1>>

RLess(x, y) ==
  x[1] * y[2] < y[1] * x[2]

\* ------------------------------------------------------------ policy tables
\* Domain (the enum), in declaration order
Domain ==
  <<"GITHUB", "WEB_SCRAPING", "CODE_ANALYSIS", "API_TESTING", "TEST_EXECUTION",
    "FILE_OPERATIONS", "WEB_SEARCH", "HTTP_REQUESTS", "KNOWLEDGE_STORAGE",
    "DATABASE_OPERATIONS", "MONITORING", "UI_DEVELOPMENT", "INFRASTRUCTURE",
    "UNKNOWN">>

\* the keys of the domain_patterns dicts, in insertion order
PatternDomains ==
  SubSeq(Domain, 1, 13)

rule_domain_patterns ==
      "GITHUB" :> <<
        <<<<"g","i","t","h","u","b">>>>,   \* github
        <<<<"r","e","p","o","s","i","t","o","r","y">>>>,   \* repository
        <<<<"r","e","p","o">>>>,   \* repo
        <<<<"g","i","t">>>>    \* git
      >>
  @@  "WEB_SCRAPING" :> <<
        <<<<"f","i","r","e","c","r","a","w","l">>>>,   \* firecrawl
        <<<<"s","c","r","a","p","i","n","g">>>>,   \* scraping
        <<<<"e","x","t","r","a","c","t">>, <<"w","e","b">>>>,   \* extract.*web
        <<<<"c","r","a","w","l">>, <<"w","e","b">>>>    \* crawl.*web
      >>
  @@  "CODE_ANALYSIS" :> <<
        <<<<"c","o","d","e","-","i","n","d","e","x">>>>,   \* code-index
        <<<<"c","o","d","e">>, <<"a","n","a","l","y","s","i","s">>>>,   \* code.*analysis
        <<<<"s","e","a","r","c","h">>, <<"c","o","d","e">>>>    \* search.*code
      >>
  @@  "API_TESTING" :> <<
        <<<<"s","c","h","e","m","a","t","h","e","s","i","s">>>>,   \* schemathesis
        <<<<"a","p","i">>, <<"t","e","s","t">>>>,   \* api.*test
        <<<<"o","p","e","n","a","p","i">>>>    \* openapi
      >>
  @@  "TEST_EXECUTION" :> <<
        <<<<"p","y","t","e","s","t">>>>,   \* pytest
        <<<<"t","e","s","t">>, <<"e","x","e","c","u","t","i","o","n">>>>    \* test.*execution
      >>
  @@  "FILE_OPERATIONS" :> <<
        <<<<"f","i","l","e","s","y","s","t","e","m">>>>,   \* filesystem
        <<<<"f","i","l","e">>, <<"o","p","e","r","a","t","i","o","n">>>>,   \* file.*operation
        <<<<"l","o","c","a","l">>, <<"f","i","l","e">>>>    \* local.*file
      >>
  @@  "WEB_SEARCH" :> <<
        <<<<"b","r","a","v","e","-","s","e","a","r","c","h">>>>,   \* brave-search
        <<<<"w","e","b">>, <<"s","e","a","r","c","h">>>>,   \* web.*search
        <<<<"o","n","l","i","n","e">>, <<"s","e","a","r","c","h">>>>    \* online.*search
      >>
  @@  "HTTP_REQUESTS" :> <<
        <<<<"h","t","t","p","i","e">>>>,   \* httpie
        <<<<"h","t","t","p">>, <<"r","e","q","u","e","s","t">>>>    \* http.*request
      >>
  @@  "KNOWLEDGE_STORAGE" :> <<
        <<<<"m","e","m","o","r","y","-","b","a","n","k">>>>,   \* memory-bank
        <<<<"k","n","o","w","l","e","d","g","e">>, <<"s","t","o","r","a","g","e">>>>    \* knowledge.*storage
      >>
  @@  "DATABASE_OPERATIONS" :> <<
        <<<<"s","q","l">>>>,   \* sql
        <<<<"d","a","t","a","b","a","s","e">>, <<"q","u","e","r","y">>>>    \* database.*query
      >>
  @@  "MONITORING" :> <<
        <<<<"p","r","o","m","e","t","h","e","u","s">>>>,   \* prometheus
        <<<<"m","e","t","r","i","c","s">>>>,   \* metrics
        <<<<"m","o","n","i","t","o","r","i","n","g">>>>    \* monitoring
      >>
  @@  "UI_DEVELOPMENT" :> <<
        <<<<"s","v","e","l","t","e">>>>,   \* svelte
        <<<<"t","e","x","t","u","a","l">>>>,   \* textual
        <<<<"u","i">>, <<"d","e","v","e","l","o","p","m","e","n","t">>>>    \* ui.*development
      >>
  @@  "INFRASTRUCTURE" :> <<
        <<<<"d","o","c","k","e","r">>>>,   \* docker
        <<<<"i","n","f","r","a","s","t","r","u","c","t","u","r","e">>>>    \* infrastructure
      >>

domain_patterns ==
      "GITHUB" :> <<
        <<<<"g","i","t","h","u","b">>>>,   \* github
        <<<<"r","e","p","o","s","i","t","o","r","y">>>>,   \* repository
        <<<<"r","e","p","o">>>>,   \* repo
        <<<<"g","i","t">>>>,   \* git
        <<<<"b","r","a","n","c","h">>>>,   \* branch
        <<<<"c","o","m","m","i","t">>>>,   \* commit
        <<<<"p","u","l","l">>, <<"r","e","q","u","e","s","t">>>>,   \* pull.*request
        <<<<"p","r">>>>,   \* pr
        <<<<"i","s","s","u","e">>>>,   \* issue
        <<<<"f","o","r","k">>>>,   \* fork
        <<<<"s","t","a","r">>>>    \* star
      >>
  @@  "WEB_SCRAPING" :> <<
        <<<<"s","c","r","a","p","e">>>>,   \* scrape
        <<<<"e","x","t","r","a","c","t">>, <<"w","e","b">>>>,   \* extract.*web
        <<<<"c","r","a","w","l">>, <<"w","e","b">>>>,   \* crawl.*web
        <<<<"p","a","r","s","e">>, <<"h","t","m","l">>>>,   \* parse.*html
        <<<<"s","c","r","a","p","e">>, <<"s","i","t","e">>>>,   \* scrape.*site
        <<<<"e","x","t","r","a","c","t">>, <<"d","a","t","a">>, <<"f","r","o","m">>, <<"w","e","b">>>>    \* extract.*data.*from.*web
      >>
  @@  "CODE_ANALYSIS" :> <<
        <<<<"c","o","d","e">>, <<"a","n","a","l","y","s","i","s">>>>,   \* code.*analysis
        <<<<"a","n","a","l","y","z","e">>, <<"c","o","d","e">>>>,   \* analyze.*code
        <<<<"s","e","a","r","c","h">>, <<"c","o","d","e">>>>,   \* search.*code
        <<<<"f","i","n","d">>, <<"f","u","n","c","t","i","o","n">>>>,   \* find.*function
        <<<<"f","i","n","d">>, <<"c","l","a","s","s">>>>,   \* find.*class
        <<<<"c","o","d","e">>, <<"s","e","a","r","c","h">>>>,   \* code.*search
        <<<<"i","n","d","e","x","e","d">>, <<"s","e","a","r","c","h">>>>,   \* indexed.*search
        <<<<"c","o","d","e">>, <<"i","n","d","e","x">>>>    \* code.*index
      >>
  @@  "API_TESTING" :> <<
        <<<<"a","p","i">>, <<"t","e","s","t">>>>,   \* api.*test
        <<<<"s","c","h","e","m","a">>, <<"v","a","l","i","d","a","t","i","o","n">>>>,   \* schema.*validation
        <<<<"o","p","e","n","a","p","i">>>>,   \* openapi
        <<<<"s","w","a","g","g","e","r">>>>,   \* swagger
        <<<<"e","n","d","p","o","i","n","t">>, <<"t","e","s","t">>>>,   \* endpoint.*test
        <<<<"h","t","t","p">>, <<"t","e","s","t">>>>,   \* http.*test
        <<<<"a","p","i">>, <<"s","p","e","c">>>>    \* api.*spec
      >>
  @@  "TEST_EXECUTION" :> <<
        <<<<"r","u","n">>, <<"t","e","s","t">>>>,   \* run.*test
        <<<<"t","e","s","t">>, <<"e","x","e","c","u","t","i","o","n">>>>,   \* test.*execution
        <<<<"p","y","t","e","s","t">>>>,   \* pytest
        <<<<"u","n","i","t">>, <<"t","e","s","t">>>>,   \* unit.*test
        <<<<"i","n","t","e","g","r","a","t","i","o","n">>, <<"t","e","s","t">>>>,   \* integration.*test
        <<<<"t","e","s","t">>, <<"s","u","i","t","e">>>>    \* test.*suite
      >>
  @@  "FILE_OPERATIONS" :> <<
        <<<<"r","e","a","d">>, <<"f","i","l","e">>>>,   \* read.*file
        <<<<"w","r","i","t","e">>, <<"f","i","l","e">>>>,   \* write.*file
        <<<<"c","r","e","a","t","e">>, <<"f","i","l","e">>>>,   \* create.*file
        <<<<"e","d","i","t">>, <<"f","i","l","e">>>>,   \* edit.*file
        <<<<"l","i","s","t">>, <<"f","i","l","e","s">>>>,   \* list.*files
        <<<<"d","i","r","e","c","t","o","r","y">>>>,   \* directory
        <<<<"l","o","c","a","l">>, <<"f","i","l","e">>>>,   \* local.*file
        <<<<"w","o","r","k","s","p","a","c","e">>, <<"f","i","l","e">>>>    \* workspace.*file
      >>
  @@  "WEB_SEARCH" :> <<
        <<<<"s","e","a","r","c","h">>, <<"w","e","b">>>>,   \* search.*web
        <<<<"g","o","o","g","l","e">>>>,   \* google
        <<<<"b","i","n","g">>>>,   \* bing
        <<<<"o","n","l","i","n","e">>, <<"s","e","a","r","c","h">>>>,   \* online.*search
        <<<<"f","i","n","d">>, <<"i","n","f","o","r","m","a","t","i","o","n">>, <<"o","n","l","i","n","e">>>>,   \* find.*information.*online
        <<<<"w","e","b">>, <<"q","u","e","r","y">>>>    \* web.*query
      >>
  @@  "HTTP_REQUESTS" :> <<
        <<<<"h","t","t","p">>, <<"r","e","q","u","e","s","t">>>>,   \* http.*request
        <<<<"c","u","r","l">>>>,   \* curl
        <<<<"w","g","e","t">>>>,   \* wget
        <<<<"r","e","q","u","e","s","t">>, <<"u","r","l">>>>,   \* request.*url
        <<<<"f","e","t","c","h">>, <<"u","r","l">>>>,   \* fetch.*url
        <<<<"g","e","t">>, <<"h","t","t","p">>>>,   \* get.*http
        <<<<"p","o","s","t">>, <<"h","t","t","p">>>>    \* post.*http
      >>
  @@  "KNOWLEDGE_STORAGE" :> <<
        <<<<"s","t","o","r","e">>, <<"k","n","o","w","l","e","d","g","e">>>>,   \* store.*knowledge
        <<<<"s","a","v","e">>, <<"i","n","f","o","r","m","a","t","i","o","n">>>>,   \* save.*information
        <<<<"r","e","m","e","m","b","e","r">>>>,   \* remember
        <<<<"k","n","o","w","l","e","d","g","e">>, <<"b","a","s","e">>>>,   \* knowledge.*base
        <<<<"s","a","v","e">>, <<"f","o","r">>, <<"l","a","t","e","r">>>>,   \* save.*for.*later
        <<<<"d","o","c","u","m","e","n","t">>>>    \* document
      >>
  @@  "DATABASE_OPERATIONS" :> <<
        <<<<"s","q","l">>, <<"q","u","e","r","y">>>>,   \* sql.*query
        <<<<"d","a","t","a","b","a","s","e">>>>,   \* database
        <<<<"s","e","l","e","c","t">>, <<"f","r","o","m">>>>,   \* select.*from
        <<<<"i","n","s","e","r","t">>, <<"i","n","t","o">>>>,   \* insert.*into
        <<<<"u","p","d","a","t","e">>, <<"t","a","b","l","e">>>>,   \* update.*table
        <<<<"r","u","n">>, <<"q","u","e","r","y">>>>,   \* run.*query
        <<<<"d","b">>, <<"q","u","e","r","y">>>>    \* db.*query
      >>
  @@  "MONITORING" :> <<
        <<<<"m","e","t","r","i","c","s">>>>,   \* metrics
        <<<<"m","o","n","i","t","o","r","i","n","g">>>>,   \* monitoring
        <<<<"p","r","o","m","e","t","h","e","u","s">>>>,   \* prometheus
        <<<<"g","r","a","f","a","n","a">>>>,   \* grafana
        <<<<"p","e","r","f","o","r","m","a","n","c","e">>, <<"m","o","n","i","t","o","r">>>>,   \* performance.*monitor
        <<<<"s","y","s","t","e","m">>, <<"m","e","t","r","i","c","s">>>>    \* system.*metrics
      >>
  @@  "UI_DEVELOPMENT" :> <<
        <<<<"s","v","e","l","t","e">>>>,   \* svelte
        <<<<"u","i">>, <<"d","e","v","e","l","o","p","m","e","n","t">>>>,   \* ui.*development
        <<<<"f","r","o","n","t","e","n","d">>>>,   \* frontend
        <<<<"i","n","t","e","r","f","a","c","e">>>>,   \* interface
        <<<<"g","u","i">>>>,   \* gui
        <<<<"w","e","b">>, <<"c","o","m","p","o","n","e","n","t">>>>    \* web.*component
      >>
  @@  "INFRASTRUCTURE" :> <<
        <<<<"d","o","c","k","e","r">>>>,   \* docker
        <<<<"c","o","n","t","a","i","n","e","r">>>>,   \* container
        <<<<"k","u","b","e","r","n","e","t","e","s">>>>,   \* kubernetes
        <<<<"d","e","p","l","o","y","m","e","n","t">>>>,   \* deployment
        <<<<"i","n","f","r","a","s","t","r","u","c","t","u","r","e">>>>,   \* infrastructure
        <<<<"d","e","v","o","p","s">>>>    \* devops
      >>

domain_tool_mapping ==
      "GITHUB" :> <<[name |-> "github", chars |-> <<"g","i","t","h","u","b">>], [name |-> "github-mcp", chars |-> <<"g","i","t","h","u","b","-","m","c","p">>]>>
  @@  "WEB_SCRAPING" :> <<[name |-> "firecrawl", chars |-> <<"f","i","r","e","c","r","a","w","l">>]>>
  @@  "CODE_ANALYSIS" :> <<[name |-> "code-index", chars |-> <<"c","o","d","e","-","i","n","d","e","x">>]>>
  @@  "API_TESTING" :> <<[name |-> "schemathesis", chars |-> <<"s","c","h","e","m","a","t","h","e","s","i","s">>]>>
  @@  "TEST_EXECUTION" :> <<[name |-> "pytest", chars |-> <<"p","y","t","e","s","t">>]>>
  @@  "FILE_OPERATIONS" :> <<[name |-> "filesystem", chars |-> <<"f","i","l","e","s","y","s","t","e","m">>]>>
  @@  "WEB_SEARCH" :> <<[name |-> "brave-search", chars |-> <<"b","r","a","v","e","-","s","e","a","r","c","h">>]>>
  @@  "HTTP_REQUESTS" :> <<[name |-> "httpie", chars |-> <<"h","t","t","p","i","e">>]>>
  @@  "KNOWLEDGE_STORAGE" :> <<[name |-> "memory-bank", chars |-> <<"m","e","m","o","r","y","-","b","a","n","k">>]>>
  @@  "DATABASE_OPERATIONS" :> <<[name |-> "sql", chars |-> <<"s","q","l">>]>>
  @@  "MONITORING" :> <<[name |-> "prometheus", chars |-> <<"p","r","o","m","e","t","h","e","u","s">>]>>
  @@  "UI_DEVELOPMENT" :> <<[name |-> "svelte", chars |-> <<"s","v","e","l","t","e">>], [name |-> "textual-devtools", chars |-> <<"t","e","x","t","u","a","l","-","d","e","v","t","o","o","l","s">>]>>
  @@  "INFRASTRUCTURE" :> <<[name |-> "docker", chars |-> <<"d","o","c","k","e","r">>]>>

fallback_hierarchies ==
      "GITHUB" :> <<"fetch">>
  @@  "WEB_SCRAPING" :> <<"fetch">>
  @@  "CODE_ANALYSIS" :> <<"filesystem">>
  @@  "API_TESTING" :> <<"httpie", "fetch">>
  @@  "TEST_EXECUTION" :> <<>>
  @@  "FILE_OPERATIONS" :> <<"file-batch">>
  @@  "WEB_SEARCH" :> <<"firecrawl">>
  @@  "HTTP_REQUESTS" :> <<"fetch">>
  @@  "KNOWLEDGE_STORAGE" :> <<"filesystem">>
  @@  "DATABASE_OPERATIONS" :> <<>>
  @@  "MONITORING" :> <<"fetch">>
  @@  "UI_DEVELOPMENT" :> <<"filesystem">>
  @@  "INFRASTRUCTURE" :> <<>>

forbidden_mappings ==
      "GITHUB" :> <<"fetch", "curl">>
  @@  "WEB_SCRAPING" :> <<"fetch">>
  @@  "CODE_ANALYSIS" :> <<"fetch", "manual file scanning">>
  @@  "WEB_SEARCH" :> <<"fetch", "firecrawl_search">>
  @@  "HTTP_REQUESTS" :> <<>>

priority_mapping ==
      "GITHUB" :> 1
  @@  "WEB_SEARCH" :> 2
  @@  "API_TESTING" :> 3
  @@  "DATABASE_OPERATIONS" :> 4
  @@  "CODE_ANALYSIS" :> 5
  @@  "WEB_SCRAPING" :> 6
  @@  "KNOWLEDGE_STORAGE" :> 7
  @@  "TEST_EXECUTION" :> 8
  @@  "FILE_OPERATIONS" :> 9
  @@  "MONITORING" :> 10
  @@  "HTTP_REQUESTS" :> 11
  @@  "UI_DEVELOPMENT" :> 12
  @@  "INFRASTRUCTURE" :> 13

\* ------------------------------------------------------------- input sets
Sessions ==
  {"s1", "s2"}

AgentTypes ==
  {"cline"}

\* task descriptions handed to validation, by name
TaskText ==
     "T_github" :> <<"C","r","e","a","t","e"," ","a"," ","n","e","w"," ","r","e","p","o","s","i","t","o","r","y"," ","o","n"," ","G","i","t","H","u","b">>
  @@ "T_tutorials" :> <<"S","e","a","r","c","h"," ","f","o","r"," ","P","y","t","h","o","n"," ","t","u","t","o","r","i","a","l","s"," ","o","n","l","i","n","e">>
  @@ "T_scrape" :> <<"s","c","r","a","p","e"," ","g","o","o","g","l","e">>

Tasks ==
  DOMAIN TaskText

\* str(context) of the context dicts handed to validation; the empty text
\* stands for context=None (and for {}, which the code treats alike)
ContextText ==
     "none" :> <<>>
  @@ "tool_curl" :> <<"{","'","t","o","o","l","'",":"," ","'","c","u","r","l","'","}">>

Contexts ==
  DOMAIN ContextText

Tools ==
  {"github", "fetch", "filesystem"}

\* systemPrompt texts of the policy document the engine is constructed from
SystemPrompts ==
  { <<"g","i","t","h","u","b"," ","b","r","a","v","e","-","s","e","a","r","c","h">>,
    <<"g","i","t","h","u","b"," ","f","i","r","e","c","r","a","w","l"," ","b","r","a","v","e","-","s","e","a","r","c","h"," ","t","e","x","t","u","a","l","-","d","e","v","t","o","o","l","s">> }

ExecutionModes ==
  {"serial", "parallel"}

MaxCallsValues ==
  -1..MaxBudget

ExecutionTimes ==
  {0, 100}

EnforcementModes ==
  {"warn", "block", "suggest"}

\* arguments of set_enforcement_mode, one of them invalid
ModeArguments ==
  EnforcementModes \cup {"strict"}

\* threads calling the engine at the same time
Threads ==
  {"t1", "t2"}

\* the session id the concurrent calls share
ThreadSessions ==
  {"s1"}

\* the validations that fill the ledger for its analytics
LedgerSessions ==
  {"s1"}

LedgerTasks ==
  {"T_github", "T_tutorials"}

LedgerContexts ==
  {"none"}

LedgerTools ==
  {"github", "fetch"}

DaysBack ==
  {0, 1, 2}

\* ----------------------------------------------------------- rule store
\* the members of a sequence
Range(q) ==
  {q[i] : i \in 1..Len(q)}

\* CipherRoutingEngine._extract_preferred_tool
extract_preferred_tool(domain, system_prompt) ==
  LET tools == IF domain \in DOMAIN domain_tool_mapping
               THEN domain_tool_mapping[domain]
               ELSE <<[name |-> "filesystem", chars |-> <<"f","i","l","e","s","y","s","t","e","m">>]>>
      found == {i \in 1..Len(tools) : re_search(<<tools[i].chars>>, lower(system_prompt))}
  IN  IF found = {} THEN tools[1].name
      ELSE tools[CHOOSE i \in found : \A k \in found : i <= k].name

\* CipherRoutingEngine._extract_alternative_tools
extract_alternative_tools(domain) ==
  IF domain \in DOMAIN fallback_hierarchies THEN fallback_hierarchies[domain] ELSE <<"fetch">>

\* CipherRoutingEngine._extract_forbidden_tools
extract_forbidden_tools(domain) ==
  IF domain \in DOMAIN forbidden_mappings THEN forbidden_mappings[domain] ELSE <<>>

\* CipherRoutingEngine._get_domain_priority
get_domain_priority(domain) ==
  IF domain \in DOMAIN priority_mapping THEN priority_mapping[domain] ELSE 999

\* the default rule appended by _parse_routing_rules
default_rule ==
  [domain |-> "UNKNOWN", preferred_tool |-> "filesystem",
   alternative_tools |-> <<"fetch", "httpie">>, forbidden_tools |-> <<>>,
   priority |-> 999]

\* CipherRoutingEngine._parse_routing_rules
parse_routing_rules(system_prompt) ==
  LET present(d) == \E i \in 1..Len(rule_domain_patterns[d]) :
                      re_search(rule_domain_patterns[d][i], lower(system_prompt))
      doms == SelectSeq(PatternDomains, present)
  IN  [i \in 1..Len(doms) |->
         [domain |-> doms[i],
          preferred_tool |-> extract_preferred_tool(doms[i], system_prompt),
          alternative_tools |-> extract_alternative_tools(doms[i]),
          forbidden_tools |-> extract_forbidden_tools(doms[i]),
          priority |-> get_domain_priority(doms[i])]]
      \o <<default_rule>>

\* ------------------------------------------------------------------- state
VARIABLES
  routing_rules,        \* CipherRoutingEngine.routing_rules
  session_metrics,      \* CipherRoutingEngine.session_metrics (dict by session id)
  ledger,               \* rows of table routing_decisions, in insertion order
  db_session_metrics,   \* rows of table session_metrics, by primary key
  enforcement_mode,     \* CipherRoutingMiddleware.enforcement_mode
  now,                  \* datetime.now(), in days
  recorded,             \* update_session_call executions per tracked session
  ret,                  \* the last operation and what it returned
  session_lock,         \* CipherRoutingEngine.session_lock: its holder, or "None"
  threads,              \* per thread: the engine call it is in and where
  classified,           \* per (task, context): what detect_domain returned
                        \* first when called on its own, and how often it was
  successes,            \* update_session_call executions with success = True,
                        \* per tracked session
  active_agents         \* AgentConfigurationSystem.active_agents: the agent
                        \* type configured for each session id

vars ==
  <<routing_rules, session_metrics, ledger, db_session_metrics,
    enforcement_mode, now, recorded, ret, session_lock, threads,
    classified, successes, active_agents>>

\* ------------------------------------------------------ domain classifier
RECURSIVE PatternScore(_, _, _)
PatternScore(patterns, text, k) ==
  IF k > Len(patterns) THEN 0
  ELSE re_findall_len(patterns[k], text) + PatternScore(patterns, text, k + 1)

\* the score loop of detect_domain for one domain
domain_score(domain, task_description, context) ==
  PatternScore(domain_patterns[domain], lower(task_description), 1)
  + (IF context # <<>>
     THEN PatternScore(domain_patterns[domain], lower(context), 1)
     ELSE 0)

\* detect_domain without its "max(domain_scores.values()) == 0" exit
highest_scoring_without_unknown(scores) ==
  LET best == CHOOSE i \in 1..Len(scores) :
                /\ \A k \in 1..Len(scores) : scores[k] <= scores[i]
                /\ \A k \in 1..(i - 1) : scores[k] < scores[i]
  IN  PatternDomains[best]

\* max(domain_scores.items(), key=score)[0] with the UNKNOWN exit before it:
\* max() keeps the first of the highest-scoring entries in insertion order
highest_scoring(scores) ==
  LET best == CHOOSE i \in 1..Len(scores) :
                /\ \A k \in 1..Len(scores) : scores[k] <= scores[i]
                /\ \A k \in 1..(i - 1) : scores[k] < scores[i]
  IN  IF scores[best] = 0 THEN "UNKNOWN" ELSE PatternDomains[best]

\* CipherRoutingEngine.detect_domain
detect_domain(task_description, context) ==
  highest_scoring([i \in 1..Len(PatternDomains) |->
                     domain_score(PatternDomains[i], task_description, context)])

\* domain_scores of detect_domain on every input of the model, in the
\* insertion order of domain_patterns
domain_scores ==
  [t \in Tasks, c \in Contexts |->
     [i \in 1..Len(PatternDomains) |->
        domain_score(PatternDomains[i], TaskText[t], ContextText[c])]]

\* detect_domain on every input of the model, evaluated once
detected ==
  [t \in Tasks, c \in Contexts |-> detect_domain(TaskText[t], ContextText[c])]

\* ----------------------------------------------------------- rule resolver
\* the rule loop of get_routing_recommendation: index of the first rule of
\* the domain with the smallest priority, 0 when the domain has no rule
best_rule(rules, domain) ==
  LET cand == {i \in 1..Len(rules) : rules[i].domain = domain}
  IN  IF cand = {} THEN 0
      ELSE CHOOSE i \in cand :
             /\ \A k \in cand : rules[i].priority <= rules[k].priority
             /\ \A k \in cand : k < i => rules[i].priority < rules[k].priority

\* next((r for r in rules if r.domain == domain), None) as an index, 0 for None
first_rule(rules, domain) ==
  LET cand == {i \in 1..Len(rules) : rules[i].domain = domain}
  IN  IF cand = {} THEN 0 ELSE CHOOSE i \in cand : \A k \in cand : i <= k

\* the rule get_routing_recommendation settles on: the best rule of the
\* domain, else the first UNKNOWN rule; an index, 0 for None
resolved_rule(rules, domain) ==
  LET b == best_rule(rules, domain)
  IN  IF b # 0 THEN b ELSE first_rule(rules, "UNKNOWN")

\* get_routing_recommendation falling back to the first loaded rule instead
\* of the default UNKNOWN rule
recommended_tool_without_fallback(rules, domain) ==
  LET b == best_rule(rules, domain)
  IN  IF b # 0 THEN rules[b].preferred_tool ELSE rules[1].preferred_tool

\* CipherRoutingEngine.get_routing_recommendation, second component
recommended_tool(rules, domain) ==
  LET r == resolved_rule(rules, domain)
  IN  IF r # 0 THEN rules[r].preferred_tool ELSE "filesystem"

\* ------------------------------------------------------ selection validator
\* validate_tool_selection without its forbidden-tool check
selection_status_without_forbidden(rules, domain, recommended, selected_tool) ==
  LET r == first_rule(rules, domain)
  IN  IF selected_tool # recommended
      THEN IF r # 0 /\ selected_tool \in Range(rules[r].alternative_tools)
           THEN "compliant" ELSE "non_compliant"
      ELSE "compliant"

\* validate_tool_selection accepting a tool only as a listed alternative
selection_status_alternatives_only(rules, domain, recommended, selected_tool) ==
  LET r == first_rule(rules, domain)
      tentative ==
        IF r # 0 /\ selected_tool \in Range(rules[r].alternative_tools)
        THEN "compliant" ELSE "non_compliant"
  IN  IF r # 0 /\ selected_tool \in Range(rules[r].forbidden_tools)
      THEN "non_compliant" ELSE tentative

\* the status computation of validate_tool_selection
selection_status(rules, domain, recommended, selected_tool) ==
  LET r == first_rule(rules, domain)
      tentative ==
        IF selected_tool # recommended
        THEN IF r # 0 /\ selected_tool \in Range(rules[r].alternative_tools)
             THEN "compliant" ELSE "non_compliant"
        ELSE "compliant"
  IN  IF r # 0 /\ selected_tool \in Range(rules[r].forbidden_tools)
      THEN "non_compliant" ELSE tentative

\* the ToolSelection built by validate_tool_selection
tool_selection(rules, session_id, agent_type, task, context, selected_tool, timestamp) ==
  LET domain == detected[task, context]
      recommended == recommended_tool(rules, domain)
  IN  [session_id |-> session_id, agent_type |-> agent_type,
       task_description |-> task, detected_domain |-> domain,
       recommended_tool |-> recommended, selected_tool |-> selected_tool,
       selection_status |-> selection_status(rules, domain, recommended, selected_tool),
       selection_timestamp |-> timestamp,
       execution_time_ms |-> "None", success |-> TRUE]

\* the action mapping with every mode treated as "block"
enforcement_action_always_block(mode, selection) ==
  IF selection.selection_status = "compliant" THEN <<TRUE, "None">>
  ELSE <<FALSE, selection.recommended_tool>>

\* the action mapping refusing the calls of a session whose budget is used up
\* or whose mode is not serial
enforcement_action_budget_gate(mode, selection) ==
  IF /\ selection.session_id \in DOMAIN session_metrics
     /\ \/ session_metrics[selection.session_id].calls_remaining <= 0
        \/ session_metrics[selection.session_id].execution_mode # "serial"
  THEN <<FALSE, "None">>
  ELSE IF selection.selection_status = "compliant" THEN <<TRUE, "None">>
  ELSE IF mode = "block" THEN <<FALSE, selection.recommended_tool>>
  ELSE IF mode = "suggest" THEN <<TRUE, selection.recommended_tool>>
  ELSE <<TRUE, "None">>

\* the action mapping of CipherRoutingMiddleware.validate_tool_call:
\* <<should_allow, suggested_tool>>
enforcement_action(mode, selection) ==
  IF selection.selection_status = "compliant" THEN <<TRUE, "None">>
  ELSE IF mode = "block" THEN <<FALSE, selection.recommended_tool>>
  ELSE IF mode = "suggest" THEN <<TRUE, selection.recommended_tool>>
  ELSE <<TRUE, "None">>

\* ----------------------------------------------------------------- budgets
\* recorded calls over all sessions
RECURSIVE SumRecorded(_, _)
SumRecorded(f, S) ==
  IF S = {} THEN 0
  ELSE LET s == CHOOSE x \in S : TRUE
       IN  f[s] + SumRecorded(f, S \ {s})

\* state-growing operations so far: appends, sessions created, calls recorded
OpsDone ==
  Len(ledger) + Cardinality(DOMAIN session_metrics) + SumRecorded(recorded, Sessions)



\* ----------------------------------------------- session admission control
\* the default of track_session_performance's max_calls
DefaultMaxCalls == 8

\* the PerformanceMetrics built by track_session_performance
new_metrics(mode, max_calls) ==
  [total_calls |-> max_calls, calls_remaining |-> max_calls,
   execution_mode |-> mode,
   average_execution_time |-> RInt(0), success_rate |-> RInt(100)]

\* the row written by the INSERT OR REPLACE of track_session_performance
metrics_row(mode, max_calls) ==
  [total_calls |-> max_calls, calls_remaining |-> max_calls,
   execution_mode |-> mode,
   average_execution_time |-> RInt(0), success_rate |-> RInt(100)]

\* track_session_performance without its "not in self.session_metrics" test
track_session_performance_reset(metrics, session_id, mode, max_calls) ==
  [k \in DOMAIN metrics \cup {session_id} |->
     IF k = session_id THEN new_metrics(mode, max_calls) ELSE metrics[k]]

\* session_metrics after track_session_performance
track_session_performance(metrics, session_id, mode, max_calls) ==
  IF session_id \notin DOMAIN metrics
  THEN metrics @@ (session_id :> new_metrics(mode, max_calls))
  ELSE metrics

\* a recorded call that costs two calls of the budget
decrement_twice(calls_remaining) ==
  IF calls_remaining - 2 > 0 THEN calls_remaining - 2 ELSE 0

\* max(0, calls_remaining - 1)
decrement(calls_remaining) ==
  IF calls_remaining - 1 > 0 THEN calls_remaining - 1 ELSE 0

\* the body of update_session_call for a tracked session
updated_metrics(m, execution_time_ms, success) ==
  LET remaining == decrement(m.calls_remaining)
      average == IF m.average_execution_time = RInt(0)
                 THEN RInt(execution_time_ms)
                 ELSE RDiv(RAdd(m.average_execution_time, RInt(execution_time_ms)), RInt(2))
      total_calls_made == m.total_calls - remaining
      current_success_count ==
        RAdd(RDiv(RMul(m.success_rate, RInt(total_calls_made)), RInt(100)),
             RInt(IF success THEN 1 ELSE 0))
      rate == IF total_calls_made > 0
              THEN RMul(RDiv(current_success_count, RInt(total_calls_made)), RInt(100))
              ELSE m.success_rate
  IN  [m EXCEPT !.calls_remaining = remaining,
                !.average_execution_time = average,
                !.success_rate = rate]

\* update_session_call on a defaultdict: an unknown id gets a fresh record
update_session_call_autocreate(metrics, session_id, execution_time_ms, success) ==
  IF session_id \in DOMAIN metrics
  THEN [metrics EXCEPT ![session_id] = updated_metrics(@, execution_time_ms, success)]
  ELSE metrics @@ (session_id :> updated_metrics(new_metrics("serial", 8),
                                                 execution_time_ms, success))

\* session_metrics after update_session_call
update_session_call(metrics, session_id, execution_time_ms, success) ==
  IF session_id \in DOMAIN metrics
  THEN [metrics EXCEPT ![session_id] = updated_metrics(@, execution_time_ms, success)]
  ELSE metrics

\* check_performance_constraints treating an untracked id as over its limit
check_performance_constraints_untracked_violation(metrics, session_id) ==
  IF session_id \notin DOMAIN metrics
  THEN [tracked |-> FALSE, violation |-> TRUE, violations |-> <<"exceeded_call_limit">>]
  ELSE LET m == metrics[session_id]
           v1 == IF m.calls_remaining < 0 THEN <<"exceeded_call_limit">> ELSE <<>>
           v2 == IF m.execution_mode # "serial" THEN <<"non_serial_execution_mode">> ELSE <<>>
       IN  [tracked |-> TRUE, violation |-> Len(v1 \o v2) > 0,
            violations |-> v1 \o v2,
            calls_remaining |-> m.calls_remaining,
            execution_mode |-> m.execution_mode,
            average_execution_time |-> m.average_execution_time,
            success_rate |-> m.success_rate]

\* check_performance_constraints without its execution-mode test
check_performance_constraints_without_mode(metrics, session_id) ==
  IF session_id \notin DOMAIN metrics
  THEN [tracked |-> FALSE, violation |-> FALSE, violations |-> <<>>]
  ELSE LET m == metrics[session_id]
           v1 == IF m.calls_remaining < 0 THEN <<"exceeded_call_limit">> ELSE <<>>
       IN  [tracked |-> TRUE, violation |-> Len(v1) > 0,
            violations |-> v1,
            calls_remaining |-> m.calls_remaining,
            execution_mode |-> m.execution_mode,
            average_execution_time |-> m.average_execution_time,
            success_rate |-> m.success_rate]

\* CipherRoutingEngine.check_performance_constraints
check_performance_constraints(metrics, session_id) ==
  IF session_id \notin DOMAIN metrics
  THEN [tracked |-> FALSE, violation |-> FALSE, violations |-> <<>>]
  ELSE LET m == metrics[session_id]
           v1 == IF m.calls_remaining < 0 THEN <<"exceeded_call_limit">> ELSE <<>>
           v2 == IF m.execution_mode # "serial" THEN <<"non_serial_execution_mode">> ELSE <<>>
       IN  [tracked |-> TRUE, violation |-> Len(v1 \o v2) > 0,
            violations |-> v1 \o v2,
            calls_remaining |-> m.calls_remaining,
            execution_mode |-> m.execution_mode,
            average_execution_time |-> m.average_execution_time,
            success_rate |-> m.success_rate]

\* ------------------------------------------------------------------ ledger
\* _store_selection whose INSERT is never committed
store_selection_dropped(rows, selection) ==
  rows

\* _store_selection as INSERT OR REPLACE on a key every row shares
store_selection_replace(rows, selection) ==
  IF rows = <<>> THEN <<selection>> ELSE [rows EXCEPT ![Len(rows)] = selection]

\* _store_selection writing every row with status "error"
store_selection_status_error(rows, selection) ==
  Append(rows, [selection EXCEPT !.selection_status = "error"])

\* routing_decisions after the INSERT of _store_selection
store_selection(rows, selection) ==
  Append(rows, selection)

\* ---------------------------------------------------------------- analytics
\* the rows selected by analyze_routing_patterns: "selection_timestamp >= ?"
\* with cutoff = datetime.now() - timedelta(days_back). The clock variable
\* counts the whole days that have passed; the call itself is later than
\* every row written before it, so a row stamped on clock day d is at least
\* as new as the cutoff exactly when now - d < days_back
decisions_since(rows, cutoff) ==
  SelectSeq(rows, LAMBDA d : d.selection_timestamp > cutoff)

CountWhere(rows, P(_)) ==
  Len(SelectSeq(rows, P))

\* sum of f over the set S
RECURSIVE SumOver(_, _)
SumOver(f, S) ==
  IF S = {} THEN 0
  ELSE LET x == CHOOSE y \in S : TRUE
       IN  f[x] + SumOver(f, S \ {x})

\* CipherRoutingEngine.analyze_routing_patterns over fetched rows; reading the
\* key "average_execution_time" of a tool used more than 5 times raises
\* KeyError in _generate_optimization_recommendations, caught by the handler
analyze_routing_patterns(rows, cutoff, days_back) ==
  LET decisions == decisions_since(rows, cutoff)
      total == Len(decisions)
      doms == {decisions[i].detected_domain : i \in 1..total}
      tools == {decisions[i].selected_tool : i \in 1..total}
      domain_stats ==
        [d \in doms |->
           [total |-> CountWhere(decisions, LAMBDA x : x.detected_domain = d),
            compliant |-> CountWhere(decisions, LAMBDA x :
                            x.detected_domain = d /\ x.selection_status = "compliant"),
            successful |-> CountWhere(decisions, LAMBDA x :
                            x.detected_domain = d /\ x.success)]]
      used == [t \in tools |-> CountWhere(decisions, LAMBDA x : x.selected_tool = t)]
      timed(t) == SelectSeq(decisions, LAMBDA x :
                    /\ x.selected_tool = t
                    /\ IF x.execution_time_ms = "None" THEN FALSE
                       ELSE x.execution_time_ms # 0)
      tool_effectiveness ==
        [t \in tools |->
           [usage_count |-> used[t],
            success_rate |->
              Rat(CountWhere(decisions, LAMBDA x : x.selected_tool = t /\ x.success) * 100,
                  used[t]),
            average_execution_time |->
              IF timed(t) = <<>> THEN RInt(0)
              ELSE Rat(SumOver([i \in 1..Len(timed(t)) |-> timed(t)[i].execution_time_ms],
                               1..Len(timed(t))),
                       Len(timed(t)))]]
      domain_recs ==
        {<<"low_compliance", d>> : d \in {e \in doms :
            RLess(Rat(domain_stats[e].compliant * 100, domain_stats[e].total), RInt(80))}}
        \cup
        {<<"low_success_rate", d>> : d \in {e \in doms :
            RLess(Rat(domain_stats[e].successful * 100, domain_stats[e].total), RInt(70))}}
  IN  IF total = 0
      THEN [error |-> "No routing decisions found for analysis period"]
      ELSE IF \E t \in tools : used[t] > 5
      THEN [error |-> "Analysis failed"]
      ELSE [error |-> "None",
            analysis_period_days |-> days_back,
            total_decisions |-> total,
            compliance_rate |->
              Rat(CountWhere(decisions, LAMBDA x : x.selection_status = "compliant") * 100, total),
            success_rate |-> Rat(CountWhere(decisions, LAMBDA x : x.success) * 100, total),
            domain_statistics |-> domain_stats,
            tool_usage |-> used,
            tool_effectiveness |-> tool_effectiveness,
            recommendations |-> domain_recs]

\* --------------------------------------------------------------------- Init
\* the operation returned to its caller
Returned(op, session_id) ==
  [op |-> op, session_id |-> session_id, raised |-> FALSE]

\* an exception reached the operation's caller
Raised(op, session_id) ==
  [op |-> op, session_id |-> session_id, raised |-> TRUE]

\* a thread outside the engine, after `calls` calls of which `updates` were
\* update_session_call calls that returned
idle_thread(calls, updates) ==
  [pc |-> "idle", calls |-> calls, updates |-> updates]

Init ==
  /\ \E p \in SystemPrompts : routing_rules = parse_routing_rules(p)
  /\ session_metrics = <<>>
  /\ ledger = <<>>
  /\ db_session_metrics = <<>>
  /\ enforcement_mode = "warn"
  /\ now = 0
  /\ recorded = [s \in Sessions |-> 0]
  /\ ret = Returned("__init__", "None")
  /\ session_lock = "None"
  /\ threads = [t \in Threads |-> idle_thread(0, 0)]
  /\ classified = <<>>
  /\ successes = [s \in Sessions |-> 0]
  /\ active_agents = <<>>

\* ------------------------------------------------------------------ actions
\* validate_tool_call that starts tracking a session id it has not seen
validate_tool_call_autotrack(session_id, agent_type, task, context, selected_tool, db_ok) ==
  LET selection == tool_selection(routing_rules, session_id, agent_type, task,
                                  context, selected_tool, now)
      action == enforcement_action(enforcement_mode, selection)
  IN  /\ ledger' = IF db_ok THEN store_selection(ledger, selection) ELSE ledger
      /\ session_metrics' =
           track_session_performance(session_metrics, session_id, "serial", 8)
      /\ ret' = IF db_ok
                THEN [op |-> "validate_tool_call", session_id |-> session_id,
                      raised |-> FALSE, selection |-> selection,
                      is_compliant |-> selection.selection_status = "compliant",
                      should_allow |-> action[1], suggested_tool |-> action[2]]
                ELSE Raised("validate_tool_call", session_id)
      /\ UNCHANGED <<routing_rules, db_session_metrics, enforcement_mode, now, recorded>>
      /\ UNCHANGED <<session_lock, threads, classified, successes, active_agents>>

\* CipherRoutingMiddleware.validate_tool_call with the engine's
\* validate_tool_selection and _store_selection; sqlite3 may raise in the
\* INSERT (db_ok = FALSE), which neither method catches
validate_tool_call(session_id, agent_type, task, context, selected_tool, db_ok) ==
  LET selection == tool_selection(routing_rules, session_id, agent_type, task,
                                  context, selected_tool, now)
      action == enforcement_action(enforcement_mode, selection)
  IN  /\ ledger' = IF db_ok THEN store_selection(ledger, selection) ELSE ledger
      /\ ret' = IF db_ok
                THEN [op |-> "validate_tool_call", session_id |-> session_id,
                      raised |-> FALSE, selection |-> selection,
                      is_compliant |-> selection.selection_status = "compliant",
                      should_allow |-> action[1], suggested_tool |-> action[2]]
                ELSE Raised("validate_tool_call", session_id)
      /\ UNCHANGED <<routing_rules, session_metrics, db_session_metrics,
                     enforcement_mode, now, recorded>>
      /\ UNCHANGED <<session_lock, threads, classified, successes, active_agents>>

\* CipherRoutingMiddleware.initialize_session with the engine's
\* track_session_performance; a failing INSERT (db_ok = FALSE) raises after
\* the dict entry was made and is swallowed by the middleware
initialize_session(session_id, mode, max_calls, db_ok) ==
  /\ session_metrics' = track_session_performance(session_metrics, session_id, mode, max_calls)
  /\ db_session_metrics' =
       IF session_id \notin DOMAIN session_metrics /\ db_ok
       THEN [k \in DOMAIN db_session_metrics \cup {session_id} |->
               IF k = session_id THEN metrics_row(mode, max_calls)
               ELSE db_session_metrics[k]]
       ELSE db_session_metrics
  /\ ret' = Returned("initialize_session", session_id)
  /\ UNCHANGED <<routing_rules, ledger, enforcement_mode, now, recorded>>
  /\ UNCHANGED <<session_lock, threads, classified, successes, active_agents>>

\* CipherRoutingMiddleware.track_tool_execution with the engine's
\* update_session_call and the check_performance_constraints that follows it
\* (its result is only logged)
track_tool_execution(session_id, execution_time_ms, success) ==
  /\ session_metrics' = update_session_call(session_metrics, session_id, execution_time_ms, success)
  /\ recorded' = IF session_id \in DOMAIN session_metrics
                 THEN [recorded EXCEPT ![session_id] = @ + 1]
                 ELSE recorded
  /\ successes' = IF session_id \in DOMAIN session_metrics /\ success
                  THEN [successes EXCEPT ![session_id] = @ + 1]
                  ELSE successes
  /\ ret' = Returned("track_tool_execution", session_id)
  /\ UNCHANGED <<routing_rules, ledger, db_session_metrics, enforcement_mode, now>>
  /\ UNCHANGED <<session_lock, threads, classified, active_agents>>

\* CipherRoutingEngine.check_performance_constraints called on its own; what
\* it returns is check_performance_constraints(session_metrics, session_id)
check_constraints(session_id) ==
  /\ ret' = Returned("check_performance_constraints", session_id)
  /\ UNCHANGED <<routing_rules, session_metrics, ledger, db_session_metrics,
                 enforcement_mode, now, recorded>>
  /\ UNCHANGED <<session_lock, threads, classified, successes, active_agents>>

\* what get_routing_analytics returns: the engine's analyze_routing_patterns,
\* whose handler turns a failing SELECT into an error report
routing_analytics(rows, today, days_back, db_ok) ==
  IF db_ok THEN analyze_routing_patterns(rows, today - days_back, days_back)
  ELSE [error |-> "Analysis failed"]

\* CipherRoutingMiddleware.get_routing_analytics; what it returns is
\* routing_analytics(ledger, now, days_back, db_ok)
get_routing_analytics(days_back, db_ok) ==
  /\ ret' = Returned("get_routing_analytics", "None")
  /\ UNCHANGED <<routing_rules, session_metrics, ledger, db_session_metrics,
                 enforcement_mode, now, recorded>>
  /\ UNCHANGED <<session_lock, threads, classified, successes, active_agents>>

\* set_enforcement_mode without its membership test
set_enforcement_mode_unchecked(mode) ==
  /\ enforcement_mode' = mode
  /\ ret' = [op |-> "set_enforcement_mode", session_id |-> "None",
             raised |-> FALSE, mode |-> mode]
  /\ UNCHANGED <<routing_rules, session_metrics, ledger, db_session_metrics, now, recorded>>
  /\ UNCHANGED <<session_lock, threads, classified, successes, active_agents>>

\* CipherRoutingMiddleware.set_enforcement_mode
set_enforcement_mode(mode) ==
  /\ enforcement_mode' = IF mode \in {"warn", "block", "suggest"} THEN mode ELSE enforcement_mode
  /\ ret' = [op |-> "set_enforcement_mode", session_id |-> "None",
             raised |-> mode \notin {"warn", "block", "suggest"}, mode |-> mode]
  /\ UNCHANGED <<routing_rules, session_metrics, ledger, db_session_metrics, now, recorded>>
  /\ UNCHANGED <<session_lock, threads, classified, successes, active_agents>>

\* detect_domain that keeps to the domain of the latest ledger row
classify_sticky(task, context) ==
  LET key == <<task, context>>
      domain == IF ledger # <<>> THEN ledger[Len(ledger)].detected_domain
                ELSE detected[task, context]
  IN  /\ classified' =
           IF key \in DOMAIN classified
           THEN [classified EXCEPT ![key].calls = @ + 1]
           ELSE [k \in DOMAIN classified \cup {key} |->
                   IF k = key THEN [domain |-> domain, calls |-> 1]
                   ELSE classified[k]]
      /\ ret' = [op |-> "detect_domain", session_id |-> "None", raised |-> FALSE,
                 task |-> task, context |-> context, domain |-> domain]
      /\ UNCHANGED <<routing_rules, session_metrics, ledger, db_session_metrics,
                     enforcement_mode, now, recorded, session_lock, threads,
                     successes, active_agents>>

\* CipherRoutingEngine.detect_domain called on its own
classify(task, context) ==
  LET key == <<task, context>>
      domain == detected[task, context]
  IN  /\ classified' =
           IF key \in DOMAIN classified
           THEN [classified EXCEPT ![key].calls = @ + 1]
           ELSE [k \in DOMAIN classified \cup {key} |->
                   IF k = key THEN [domain |-> domain, calls |-> 1]
                   ELSE classified[k]]
      /\ ret' = [op |-> "detect_domain", session_id |-> "None", raised |-> FALSE,
                 task |-> task, context |-> context, domain |-> domain]
      /\ UNCHANGED <<routing_rules, session_metrics, ledger, db_session_metrics,
                     enforcement_mode, now, recorded, session_lock, threads,
                     successes, active_agents>>

\* the wall clock advances by a day
Tick ==
  /\ now < MaxTime
  /\ now' = now + 1
  /\ UNCHANGED <<routing_rules, session_metrics, ledger, db_session_metrics,
                 enforcement_mode, recorded, ret>>
  /\ UNCHANGED <<session_lock, threads, classified, successes, active_agents>>

\* ---------------------------------------------------- concurrent callers
\* a thread enters track_session_performance and reaches its "with
\* self.session_lock"
thread_call_track(t, session_id, mode, max_calls) ==
  /\ threads[t].pc = "idle"
  /\ threads[t].calls < MaxThreadCalls
  /\ threads' = [threads EXCEPT ![t] =
       [pc |-> "acquire", calls |-> @.calls + 1, updates |-> @.updates,
        op |-> "track_session_performance", session_id |-> session_id,
        mode |-> mode, max_calls |-> max_calls]]
  /\ UNCHANGED <<classified, successes, active_agents, routing_rules, session_metrics, ledger, db_session_metrics,
                 enforcement_mode, now, recorded, ret, session_lock>>

\* a thread enters update_session_call and reaches its "with self.session_lock"
thread_call_update(t, session_id, execution_time_ms, success) ==
  /\ threads[t].pc = "idle"
  /\ threads[t].calls < MaxThreadCalls
  /\ threads' = [threads EXCEPT ![t] =
       [pc |-> "acquire", calls |-> @.calls + 1, updates |-> @.updates,
        op |-> "update_session_call", session_id |-> session_id,
        execution_time_ms |-> execution_time_ms, success |-> success]]
  /\ UNCHANGED <<classified, successes, active_agents, routing_rules, session_metrics, ledger, db_session_metrics,
                 enforcement_mode, now, recorded, ret, session_lock>>

\* threading.Lock.acquire: blocks while another thread holds the lock
lock_free(holder) ==
  holder = "None"

thread_acquire(t) ==
  /\ threads[t].pc = "acquire"
  /\ lock_free(session_lock)
  /\ session_lock' = t
  /\ threads' = [threads EXCEPT ![t].pc = "test"]
  /\ UNCHANGED <<classified, successes, active_agents, routing_rules, session_metrics, ledger, db_session_metrics,
                 enforcement_mode, now, recorded, ret>>

\* the membership test both methods start with: "session_id [not] in
\* self.session_metrics", and for update_session_call the read of the metrics
thread_test(t) ==
  LET f == threads[t]
      present == f.session_id \in DOMAIN session_metrics
  IN  /\ f.pc = "test"
      /\ threads' = [threads EXCEPT ![t] =
           [k \in DOMAIN f \cup {"present", "calls_remaining"} |->
              IF k = "pc" THEN "body"
              ELSE IF k = "present" THEN present
              ELSE IF k = "calls_remaining"
                   THEN IF present THEN session_metrics[f.session_id].calls_remaining ELSE 0
              ELSE f[k]]]
      /\ UNCHANGED <<classified, successes, active_agents, routing_rules, session_metrics, ledger, db_session_metrics,
                     enforcement_mode, now, recorded, ret, session_lock>>

\* the body of track_session_performance after its test: the new
\* PerformanceMetrics goes into the dict, then into table session_metrics
\* (sqlite3 may raise there: db_ok = FALSE)
thread_track_body(t, db_ok) ==
  LET f == threads[t]
  IN  /\ f.pc = "body"
      /\ f.op = "track_session_performance"
      /\ session_metrics' =
           IF f.present THEN session_metrics
           ELSE [k \in DOMAIN session_metrics \cup {f.session_id} |->
                   IF k = f.session_id THEN new_metrics(f.mode, f.max_calls)
                   ELSE session_metrics[k]]
      /\ db_session_metrics' =
           IF ~f.present /\ db_ok
           THEN [k \in DOMAIN db_session_metrics \cup {f.session_id} |->
                   IF k = f.session_id THEN metrics_row(f.mode, f.max_calls)
                   ELSE db_session_metrics[k]]
           ELSE db_session_metrics
      /\ threads' = [threads EXCEPT ![t].pc = "release"]
      /\ UNCHANGED <<classified, successes, active_agents, routing_rules, ledger, enforcement_mode, now, recorded, ret,
                     session_lock>>

\* the body of update_session_call after its test: calls_remaining is written
\* from the value read, then the average and the success rate
thread_update_body(t) ==
  LET f == threads[t]
  IN  /\ f.pc = "body"
      /\ f.op = "update_session_call"
      /\ session_metrics' =
           IF f.present /\ f.session_id \in DOMAIN session_metrics
           THEN [session_metrics EXCEPT ![f.session_id] =
                   updated_metrics([@ EXCEPT !.calls_remaining = f.calls_remaining],
                                   f.execution_time_ms, f.success)]
           ELSE session_metrics
      /\ recorded' = IF f.present
                     THEN [recorded EXCEPT ![f.session_id] = @ + 1]
                     ELSE recorded
      /\ successes' = IF f.present /\ f.success
                      THEN [successes EXCEPT ![f.session_id] = @ + 1]
                      ELSE successes
      /\ threads' = [threads EXCEPT ![t].pc = "release"]
      /\ UNCHANGED <<classified, active_agents, routing_rules, ledger, db_session_metrics,
                     enforcement_mode, now, ret, session_lock>>

\* the end of the "with" block: the lock is released and the call returns
thread_release(t) ==
  LET f == threads[t]
  IN  /\ f.pc = "release"
      /\ session_lock' = IF session_lock = t THEN "None" ELSE session_lock
      /\ threads' = [threads EXCEPT ![t] =
           idle_thread(f.calls,
                       f.updates + IF f.op = "update_session_call" THEN 1 ELSE 0)]
      /\ ret' = Returned(f.op, f.session_id)
      /\ UNCHANGED <<classified, successes, active_agents, routing_rules, session_metrics, ledger, db_session_metrics,
                     enforcement_mode, now, recorded>>

\* room for one more state-growing operation
JointRoom ==
  OpsDone < MaxJointOps

SessionRoom ==
  OpsDone < MaxOps

\* room for one more row in table routing_decisions
LedgerRoom ==
  Len(ledger) < MaxLedger

Next ==
  \/ \E db_ok \in BOOLEAN, s \in Sessions, a \in AgentTypes, t \in Tasks,
        c \in Contexts, tool \in Tools :
       /\ db_ok => JointRoom
       /\ validate_tool_call(s, a, t, c, tool, db_ok)
  \/ \E s \in Sessions, m \in ExecutionModes, n \in MaxCallsValues, db_ok \in BOOLEAN :
       /\ s \notin DOMAIN session_metrics => JointRoom
       /\ initialize_session(s, m, n, db_ok)
  \/ \E s \in Sessions, e \in ExecutionTimes, ok \in BOOLEAN :
       /\ s \in DOMAIN session_metrics => JointRoom
       /\ track_tool_execution(s, e, ok)
  \/ \E s \in Sessions : check_constraints(s)
  \/ \E d \in DaysBack, db_ok \in BOOLEAN : get_routing_analytics(d, db_ok)
  \/ \E m \in ModeArguments : set_enforcement_mode(m)

\* the engine and its middleware, every operation; the clock stands still
Spec ==
  Init /\ [][Next]_vars

NextSession ==
  \/ \E s \in Sessions, m \in ExecutionModes, n \in MaxCallsValues, db_ok \in BOOLEAN :
       /\ s \notin DOMAIN session_metrics => SessionRoom
       /\ initialize_session(s, m, n, db_ok)
  \/ \E s \in Sessions, e \in ExecutionTimes, ok \in BOOLEAN :
       /\ s \in DOMAIN session_metrics => SessionRoom
       /\ track_tool_execution(s, e, ok)
  \/ \E s \in Sessions : check_constraints(s)

\* the session admission controller alone, with longer call sequences
SpecSession ==
  Init /\ [][NextSession]_vars

NextLedger ==
  \/ \E db_ok \in BOOLEAN, s \in LedgerSessions, a \in AgentTypes, t \in LedgerTasks,
        c \in LedgerContexts, tool \in LedgerTools :
       /\ db_ok => LedgerRoom
       /\ validate_tool_call(s, a, t, c, tool, db_ok)
  \/ \E d \in DaysBack, db_ok \in BOOLEAN : get_routing_analytics(d, db_ok)
  \/ Tick

\* the ledger and its analytics as days pass
SpecLedger ==
  Init /\ [][NextLedger]_vars

\* room for one more operation around the classifier: an input classified
\* for the first time counts as one
ClassifyRoom ==
  OpsDone + Cardinality(DOMAIN classified) < MaxClassifyOps

NextClassify ==
  \/ \E t \in Tasks, c \in Contexts :
       /\ <<t, c>> \notin DOMAIN classified => ClassifyRoom
       /\ <<t, c>> \in DOMAIN classified => classified[<<t, c>>].calls < MaxRepeat
       /\ classify(t, c)
  \/ \E db_ok \in BOOLEAN, s \in LedgerSessions, a \in AgentTypes, t \in Tasks,
        c \in Contexts, tool \in Tools :
       /\ db_ok => ClassifyRoom
       /\ validate_tool_call(s, a, t, c, tool, db_ok)
  \/ \E s \in LedgerSessions, m \in ExecutionModes, n \in MaxCallsValues, db_ok \in BOOLEAN :
       /\ s \notin DOMAIN session_metrics => ClassifyRoom
       /\ initialize_session(s, m, n, db_ok)
  \/ \E s \in LedgerSessions, e \in ExecutionTimes, ok \in BOOLEAN :
       /\ s \in DOMAIN session_metrics => ClassifyRoom
       /\ track_tool_execution(s, e, ok)
  \/ \E d \in DaysBack, db_ok \in BOOLEAN : get_routing_analytics(d, db_ok)

\* the classifier called between the engine's other operations
SpecClassify ==
  Init /\ [][NextClassify]_vars

NextThreads ==
  \/ \E t \in Threads, s \in ThreadSessions, m \in ExecutionModes, n \in MaxCallsValues :
       thread_call_track(t, s, m, n)
  \/ \E t \in Threads, s \in ThreadSessions, e \in ExecutionTimes, ok \in BOOLEAN :
       thread_call_update(t, s, e, ok)
  \/ \E t \in Threads : thread_acquire(t)
  \/ \E t \in Threads : thread_test(t)
  \/ \E t \in Threads, db_ok \in BOOLEAN : thread_track_body(t, db_ok)
  \/ \E t \in Threads : thread_update_body(t)
  \/ \E t \in Threads : thread_release(t)

\* several threads inside track_session_performance and update_session_call
\* of one engine, for the same session id
SpecThreads ==
  Init /\ [][NextThreads]_vars

\* ------------------------------------------- agent configuration system
AgentTasks == {"T_github"}
AgentTools == {"github"}
AgentExecutionTimes == {100}

\* rows of table routing_decisions written for the session
decisions_of(rows, session_id) ==
  CountWhere(rows, LAMBDA d : d.session_id = session_id)

\* AgentConfigurationSystem.create_agent_configuration: the session is
\* tracked with track_session_performance's defaults and entered in
\* active_agents; a failing INSERT (db_ok = FALSE) raises after the engine's
\* dict entry was made and before active_agents is written
create_agent_configuration(agent_type, session_id, db_ok) ==
  LET raises == session_id \notin DOMAIN session_metrics /\ ~db_ok
  IN  /\ session_metrics' =
           track_session_performance(session_metrics, session_id, "serial", DefaultMaxCalls)
      /\ db_session_metrics' =
           IF session_id \notin DOMAIN session_metrics /\ db_ok
           THEN [k \in DOMAIN db_session_metrics \cup {session_id} |->
                   IF k = session_id THEN metrics_row("serial", DefaultMaxCalls)
                   ELSE db_session_metrics[k]]
           ELSE db_session_metrics
      /\ active_agents' =
           IF raises THEN active_agents
           ELSE [k \in DOMAIN active_agents \cup {session_id} |->
                   IF k = session_id THEN agent_type ELSE active_agents[k]]
      /\ ret' = IF raises THEN Raised("create_agent_configuration", session_id)
                ELSE Returned("create_agent_configuration", session_id)
      /\ UNCHANGED <<routing_rules, ledger, enforcement_mode, now, recorded,
                     session_lock, threads, classified, successes>>

\* AgentConfigurationSystem.monitor_tool_selection: validate_tool_selection,
\* then update_session_call; an unknown session gets an error report, and a
\* failing INSERT of _store_selection raises before the call is recorded
monitor_tool_selection(session_id, task, selected_tool, execution_time_ms, success, context, db_ok) ==
  IF session_id \notin DOMAIN active_agents
  THEN /\ ret' = [op |-> "monitor_tool_selection", session_id |-> session_id,
                  raised |-> FALSE, error |-> "Unknown session"]
       /\ UNCHANGED <<routing_rules, session_metrics, ledger, db_session_metrics,
                      enforcement_mode, now, recorded, session_lock, threads,
                      classified, successes, active_agents>>
  ELSE IF ~db_ok
  THEN /\ ret' = Raised("monitor_tool_selection", session_id)
       /\ UNCHANGED <<routing_rules, session_metrics, ledger, db_session_metrics,
                      enforcement_mode, now, recorded, session_lock, threads,
                      classified, successes, active_agents>>
  ELSE LET selection == tool_selection(routing_rules, session_id,
                                       active_agents[session_id], task, context,
                                       selected_tool, now)
       IN  /\ ledger' = store_selection(ledger, selection)
           /\ session_metrics' =
                update_session_call(session_metrics, session_id, execution_time_ms, success)
           /\ recorded' = IF session_id \in DOMAIN session_metrics
                          THEN [recorded EXCEPT ![session_id] = @ + 1]
                          ELSE recorded
           /\ successes' = IF session_id \in DOMAIN session_metrics /\ success
                           THEN [successes EXCEPT ![session_id] = @ + 1]
                           ELSE successes
           /\ ret' = [op |-> "monitor_tool_selection", session_id |-> session_id,
                      raised |-> FALSE, error |-> "None",
                      is_compliant |-> selection.selection_status = "compliant"]
           /\ UNCHANGED <<routing_rules, db_session_metrics, enforcement_mode, now,
                          session_lock, threads, classified, active_agents>>

\* AgentConfigurationSystem.check_performance_constraints
agent_check_performance_constraints(session_id) ==
  /\ ret' = IF session_id \notin DOMAIN active_agents
            THEN [op |-> "agent_check_performance_constraints",
                  session_id |-> session_id, raised |-> FALSE,
                  error |-> "Unknown session"]
            ELSE [op |-> "agent_check_performance_constraints",
                  session_id |-> session_id, raised |-> FALSE,
                  error |-> "None",
                  report |-> check_performance_constraints(session_metrics, session_id)]
  /\ UNCHANGED <<routing_rules, session_metrics, ledger, db_session_metrics,
                 enforcement_mode, now, recorded, session_lock, threads,
                 classified, successes, active_agents>>

\* cleanup_session that also drops the engine's record of the session
cleanup_session_forgets(session_id) ==
  /\ active_agents' = [k \in DOMAIN active_agents \ {session_id} |-> active_agents[k]]
  /\ session_metrics' = [k \in DOMAIN session_metrics \ {session_id} |-> session_metrics[k]]
  /\ ret' = Returned("cleanup_session", session_id)
  /\ UNCHANGED <<routing_rules, ledger, db_session_metrics,
                 enforcement_mode, now, recorded, session_lock, threads,
                 classified, successes>>

\* AgentConfigurationSystem.cleanup_session
cleanup_session(session_id) ==
  /\ active_agents' = [k \in DOMAIN active_agents \ {session_id} |-> active_agents[k]]
  /\ ret' = Returned("cleanup_session", session_id)
  /\ UNCHANGED <<routing_rules, session_metrics, ledger, db_session_metrics,
                 enforcement_mode, now, recorded, session_lock, threads,
                 classified, successes>>

\* room for one more monitored tool selection
AgentRoom ==
  Len(ledger) < MaxAgentCalls

NextAgent ==
  \/ \E a \in AgentTypes, s \in Sessions, db_ok \in BOOLEAN :
       create_agent_configuration(a, s, db_ok)
  \/ \E s \in Sessions, t \in AgentTasks, tool \in AgentTools,
        e \in AgentExecutionTimes, c \in LedgerContexts, db_ok \in BOOLEAN :
       /\ (db_ok /\ s \in DOMAIN active_agents) => AgentRoom
       /\ monitor_tool_selection(s, t, tool, e, TRUE, c, db_ok)
  \/ \E s \in Sessions : agent_check_performance_constraints(s)
  \/ \E s \in Sessions : cleanup_session(s)

\* the agent configuration system over its engine: sessions are created,
\* monitored up to and past their budget, checked and cleaned up
SpecAgent ==
  Init /\ [][NextAgent]_vars

\* ------------------------------------------------------------------ startup
\* what may be found at config_path: no file, a file that is not YAML, an
\* empty file (yaml.safe_load gives None), or a mapping whose systemPrompt is
\* one of the prompts, or absent ("" by config.get's default)
ConfigFiles ==
  [kind : {"missing", "malformed", "empty"}, systemPrompt : {<<>>}]
    \cup [kind : {"mapping"}, systemPrompt : SystemPrompts \cup {<<>>}]

\* _load_cipher_config that logs the failure and goes on with an empty mapping
load_cipher_config_lenient(file) ==
  [raised |-> FALSE, mapping |-> TRUE,
   systemPrompt |-> IF file.kind = "mapping" THEN file.systemPrompt ELSE <<>>]

\* CipherRoutingEngine._load_cipher_config: open() or yaml.safe_load raising
\* is logged and raised again
load_cipher_config(file) ==
  [raised |-> file.kind \in {"missing", "malformed"},
   mapping |-> file.kind = "mapping",
   systemPrompt |-> file.systemPrompt]

\* CipherRoutingEngine.__init__ up to routing_rules: <<>> when it raised, in
\* _load_cipher_config or, for a config that is no mapping, at config.get
engine_init(file) ==
  LET config == load_cipher_config(file)
  IN  IF config.raised \/ ~config.mapping THEN <<>>
      ELSE parse_routing_rules(config.systemPrompt)

\* the module is imported: _middleware_instance is None, written here as
\* routing_rules = <<>> (a constructed engine holds at least the default rule)
InitStartup ==
  /\ routing_rules = <<>>
  /\ session_metrics = <<>>
  /\ ledger = <<>>
  /\ db_session_metrics = <<>>
  /\ enforcement_mode = "warn"
  /\ now = 0
  /\ recorded = [s \in Sessions |-> 0]
  /\ ret = Returned("import", "None")
  /\ session_lock = "None"
  /\ threads = [t \in Threads |-> idle_thread(0, 0)]
  /\ classified = <<>>
  /\ successes = [s \in Sessions |-> 0]
  /\ active_agents = <<>>

\* get_middleware: the instance if there is one, else CipherRoutingMiddleware()
\* with CipherRoutingEngine() inside; when that raises _middleware_instance
\* stays None
get_middleware(file) ==
  LET rules == IF routing_rules # <<>> THEN routing_rules ELSE engine_init(file)
  IN  /\ routing_rules' = rules
      /\ enforcement_mode' = IF routing_rules # <<>> THEN enforcement_mode ELSE "warn"
      /\ ret' = [op |-> "get_middleware", session_id |-> "None",
                 raised |-> rules = <<>>, config |-> file.kind]
      /\ UNCHANGED <<session_metrics, ledger, db_session_metrics, now, recorded,
                     session_lock, threads, classified, successes, active_agents>>

\* get_middleware() has returned an instance to the caller
middleware_instance ==
  routing_rules # <<>>

\* room for one more state-growing operation after startup
StartupRoom ==
  OpsDone < MaxJointOps

\* the module-level functions: get_middleware(), then the instance's method
NextStartup ==
  \/ \E file \in ConfigFiles : get_middleware(file)
  \/ \E db_ok \in BOOLEAN, s \in LedgerSessions, a \in AgentTypes, t \in LedgerTasks,
        c \in LedgerContexts, tool \in LedgerTools :
       /\ middleware_instance
       /\ db_ok => StartupRoom
       /\ validate_tool_call(s, a, t, c, tool, db_ok)
  \/ \E s \in LedgerSessions, m \in ExecutionModes, n \in MaxCallsValues, db_ok \in BOOLEAN :
       /\ middleware_instance
       /\ s \notin DOMAIN session_metrics => StartupRoom
       /\ initialize_session(s, m, n, db_ok)
  \/ \E s \in LedgerSessions, e \in ExecutionTimes, ok \in BOOLEAN :
       /\ middleware_instance
       /\ s \in DOMAIN session_metrics => StartupRoom
       /\ track_tool_execution(s, e, ok)

\* the middleware module from import on: construction may fail, and only a
\* constructed instance takes calls
SpecStartup ==
  InitStartup /\ [][NextStartup]_vars

\* ----------------------------------------------------- outcomes and ledger
\* room for one more recorded call of the session
OutcomeRoom(session_id) ==
  recorded[session_id] < MaxOutcomeCalls

NextOutcome ==
  \/ \E db_ok \in BOOLEAN, s \in LedgerSessions, a \in AgentTypes, t \in AgentTasks,
        c \in LedgerContexts, tool \in AgentTools :
       /\ db_ok => LedgerRoom
       /\ validate_tool_call(s, a, t, c, tool, db_ok)
  \/ \E s \in LedgerSessions, m \in ExecutionModes, n \in MaxCallsValues, db_ok \in BOOLEAN :
       initialize_session(s, m, n, db_ok)
  \/ \E s \in LedgerSessions, e \in ExecutionTimes, ok \in BOOLEAN :
       /\ s \in DOMAIN session_metrics => OutcomeRoom(s)
       /\ track_tool_execution(s, e, ok)
  \/ \E d \in DaysBack, db_ok \in BOOLEAN : get_routing_analytics(d, db_ok)

\* validations, the outcomes reported through track_tool_execution, and the
\* analytics over what the ledger then holds
SpecOutcome ==
  Init /\ [][NextOutcome]_vars

\* ------------------------------------------------------- tool call handler
\* example_tool_call_handler tracking the execution before it validates
example_tool_call_handler_track_first(session_id, agent_type, task, tool_name, init_db_ok, db_ok) ==
  LET tracked == track_session_performance(session_metrics, session_id,
                                           "serial", DefaultMaxCalls)
      selection == tool_selection(routing_rules, session_id, agent_type, task,
                                  "none", tool_name, now)
      action == enforcement_action(enforcement_mode, selection)
      executes == db_ok /\ action[1]
  IN  /\ db_session_metrics' =
           IF session_id \notin DOMAIN session_metrics /\ init_db_ok
           THEN [k \in DOMAIN db_session_metrics \cup {session_id} |->
                   IF k = session_id THEN metrics_row("serial", DefaultMaxCalls)
                   ELSE db_session_metrics[k]]
           ELSE db_session_metrics
      /\ ledger' = IF db_ok THEN store_selection(ledger, selection) ELSE ledger
      /\ session_metrics' =
           IF TRUE THEN update_session_call(tracked, session_id, 0, TRUE)
           ELSE tracked
      /\ recorded' = IF TRUE THEN [recorded EXCEPT ![session_id] = @ + 1]
                     ELSE recorded
      /\ successes' = IF TRUE THEN [successes EXCEPT ![session_id] = @ + 1]
                      ELSE successes
      /\ ret' = IF ~db_ok THEN Raised("example_tool_call_handler", session_id)
                ELSE [op |-> "example_tool_call_handler", session_id |-> session_id,
                      raised |-> FALSE,
                      error_code |-> IF action[1] THEN 0 ELSE -32001,
                      should_allow |-> action[1], suggested_tool |-> action[2]]
      /\ UNCHANGED <<routing_rules, enforcement_mode, now, session_lock, threads,
                     classified, active_agents>>

\* example_tool_call_handler: initialize_session with the defaults (a failing
\* INSERT is swallowed), validate_tool_call without context (a failing INSERT
\* raises out of the handler), then for an allowed call the execution, which
\* succeeds, and track_tool_execution with the elapsed milliseconds
example_tool_call_handler(session_id, agent_type, task, tool_name, init_db_ok, db_ok) ==
  LET tracked == track_session_performance(session_metrics, session_id,
                                           "serial", DefaultMaxCalls)
      selection == tool_selection(routing_rules, session_id, agent_type, task,
                                  "none", tool_name, now)
      action == enforcement_action(enforcement_mode, selection)
      executes == db_ok /\ action[1]
  IN  /\ db_session_metrics' =
           IF session_id \notin DOMAIN session_metrics /\ init_db_ok
           THEN [k \in DOMAIN db_session_metrics \cup {session_id} |->
                   IF k = session_id THEN metrics_row("serial", DefaultMaxCalls)
                   ELSE db_session_metrics[k]]
           ELSE db_session_metrics
      /\ ledger' = IF db_ok THEN store_selection(ledger, selection) ELSE ledger
      /\ session_metrics' =
           IF executes THEN update_session_call(tracked, session_id, 0, TRUE)
           ELSE tracked
      /\ recorded' = IF executes THEN [recorded EXCEPT ![session_id] = @ + 1]
                     ELSE recorded
      /\ successes' = IF executes THEN [successes EXCEPT ![session_id] = @ + 1]
                      ELSE successes
      /\ ret' = IF ~db_ok THEN Raised("example_tool_call_handler", session_id)
                ELSE [op |-> "example_tool_call_handler", session_id |-> session_id,
                      raised |-> FALSE,
                      error_code |-> IF action[1] THEN 0 ELSE -32001,
                      should_allow |-> action[1], suggested_tool |-> action[2]]
      /\ UNCHANGED <<routing_rules, enforcement_mode, now, session_lock, threads,
                     classified, active_agents>>

\* room for one more handled request that reaches the ledger
HandlerRoom ==
  Len(ledger) < MaxHandlerCalls

NextHandler ==
  \/ \E s \in LedgerSessions, a \in AgentTypes, t \in LedgerTasks, tool \in LedgerTools,
        init_db_ok \in BOOLEAN, db_ok \in BOOLEAN :
       /\ db_ok => HandlerRoom
       /\ example_tool_call_handler(s, a, t, tool, init_db_ok, db_ok)
  \/ \E s \in LedgerSessions, m \in ExecutionModes, n \in MaxCallsValues, db_ok \in BOOLEAN :
       initialize_session(s, m, n, db_ok)
  \/ \E m \in ModeArguments : set_enforcement_mode(m)

\* requests through example_tool_call_handler, for sessions it creates itself
\* or that were initialized with another budget, under every enforcement mode
SpecHandler ==
  Init /\ [][NextHandler]_vars

\* ------------------------------------------- unlocked reads of the metrics
\* update_session_call after its test, first assignment: calls_remaining; an
\* untracked id returns at once. The frame keeps the record as it was.
thread_write_calls_remaining(t) ==
  LET f == threads[t]
  IN  /\ f.pc = "body"
      /\ f.op = "update_session_call"
      /\ session_metrics' =
           IF f.present
           THEN [session_metrics EXCEPT ![f.session_id].calls_remaining =
                   decrement(f.calls_remaining)]
           ELSE session_metrics
      /\ threads' = [threads EXCEPT ![t] =
           IF f.present
           THEN [k \in DOMAIN f \cup {"before"} |->
                   IF k = "pc" THEN "body_average"
                   ELSE IF k = "before" THEN session_metrics[f.session_id]
                   ELSE f[k]]
           ELSE [f EXCEPT !.pc = "release"]]
      /\ UNCHANGED <<classified, successes, active_agents, routing_rules, ledger,
                     db_session_metrics, enforcement_mode, now, recorded, ret,
                     session_lock>>

\* second assignment of update_session_call: average_execution_time
thread_write_average(t) ==
  LET f == threads[t]
  IN  /\ f.pc = "body_average"
      /\ session_metrics' =
           [session_metrics EXCEPT ![f.session_id].average_execution_time =
              updated_metrics(f.before, f.execution_time_ms, f.success).average_execution_time]
      /\ threads' = [threads EXCEPT ![t].pc = "body_rate"]
      /\ UNCHANGED <<classified, successes, active_agents, routing_rules, ledger,
                     db_session_metrics, enforcement_mode, now, recorded, ret,
                     session_lock>>

\* last assignment of update_session_call: success_rate
thread_write_success_rate(t) ==
  LET f == threads[t]
  IN  /\ f.pc = "body_rate"
      /\ session_metrics' =
           [session_metrics EXCEPT ![f.session_id].success_rate =
              updated_metrics(f.before, f.execution_time_ms, f.success).success_rate]
      /\ recorded' = [recorded EXCEPT ![f.session_id] = @ + 1]
      /\ successes' = IF f.success
                      THEN [successes EXCEPT ![f.session_id] = @ + 1]
                      ELSE successes
      /\ threads' = [threads EXCEPT ![t].pc = "release"]
      /\ UNCHANGED <<classified, active_agents, routing_rules, ledger,
                     db_session_metrics, enforcement_mode, now, ret, session_lock>>

\* check_performance_constraints called by another thread: it does not take
\* session_lock, and reads the record as it is at that moment
check_unlocked(session_id) ==
  /\ ret' = [op |-> "check_performance_constraints", session_id |-> session_id,
             raised |-> FALSE,
             report |-> check_performance_constraints(session_metrics, session_id)]
  /\ UNCHANGED <<routing_rules, session_metrics, ledger, db_session_metrics,
                 enforcement_mode, now, recorded, session_lock, threads,
                 classified, successes, active_agents>>

NextCheckRace ==
  \/ \E t \in Threads, s \in ThreadSessions :
       thread_call_track(t, s, "serial", MaxBudget)
  \/ \E t \in Threads, s \in ThreadSessions, e \in ExecutionTimes, ok \in BOOLEAN :
       thread_call_update(t, s, e, ok)
  \/ \E t \in Threads : thread_acquire(t)
  \/ \E t \in Threads : thread_test(t)
  \/ \E t \in Threads, db_ok \in BOOLEAN : thread_track_body(t, db_ok)
  \/ \E t \in Threads : thread_write_calls_remaining(t)
  \/ \E t \in Threads : thread_write_average(t)
  \/ \E t \in Threads : thread_write_success_rate(t)
  \/ \E t \in Threads : thread_release(t)
  \/ \E s \in ThreadSessions : check_unlocked(s)

\* threads in update_session_call, one assignment at a time, while
\* check_performance_constraints is called without the lock
SpecCheckRace ==
  Init /\ [][NextCheckRace]_vars

\* ------------------------------------------------------------------ claims
\* the last operation was a validation that returned its decision
ValidationReturned ==
  ret.op = "validate_tool_call" /\ ~ret.raised

\* C1: a selected tool that is in forbidden_tools of the rule of the detected
\* domain gets status non_compliant, also when that rule lists it as an
\* alternative
C1_ForbiddenIsNonCompliant ==
  ValidationReturned =>
    LET sel == ret.selection
        r == best_rule(routing_rules, sel.detected_domain)
    IN  (r # 0 /\ sel.selected_tool \in Range(routing_rules[r].forbidden_tools))
          => sel.selection_status = "non_compliant"

\* C1 witness: fetch was validated for a GITHUB task under a rule that lists
\* fetch both as alternative and as forbidden, and github is recommended
C1_Witness ==
  /\ ValidationReturned
  /\ ret.selection.detected_domain = "GITHUB"
  /\ ret.selection.selected_tool = "fetch"
  /\ ret.selection.recommended_tool = "github"
  /\ LET r == best_rule(routing_rules, "GITHUB")
     IN  /\ r # 0
         /\ "fetch" \in Range(routing_rules[r].forbidden_tools)
         /\ "fetch" \in Range(routing_rules[r].alternative_tools)
  /\ ret.selection.selection_status = "non_compliant"

\* C2: a selected tool equal to the tool the resolver recommends for the
\* detected domain gets status compliant
C2_RecommendedIsCompliant ==
  ValidationReturned =>
    LET sel == ret.selection
    IN  sel.selected_tool = recommended_tool(routing_rules, sel.detected_domain)
          => sel.selection_status = "compliant"

\* C2 witness: the recommended tool was selected, once under a rule of the
\* domain (github) and the decision came back compliant
C2_Witness ==
  /\ ValidationReturned
  /\ ret.selection.detected_domain = "GITHUB"
  /\ ret.selection.selected_tool = "github"
  /\ ret.selection.selected_tool = recommended_tool(routing_rules, "GITHUB")
  /\ ret.selection.selection_status = "compliant"

\* C3: a selected tool that differs from the recommended one and is not
\* forbidden is compliant exactly when it is an alternative of the rule whose
\* preferred tool is recommended, and the recommendation stays that rule's
\* preferred tool
C3_AlternativeDecides ==
  ValidationReturned =>
    LET sel == ret.selection
        rule == routing_rules[resolved_rule(routing_rules, sel.detected_domain)]
    IN  (/\ sel.selected_tool # sel.recommended_tool
         /\ sel.selected_tool \notin Range(rule.forbidden_tools))
          => /\ sel.recommended_tool = rule.preferred_tool
             /\ sel.selection_status =
                  IF sel.selected_tool \in Range(rule.alternative_tools)
                  THEN "compliant" ELSE "non_compliant"

\* C3 failing case reached: fetch, an alternative of the default rule, was
\* validated for a domain without a rule of its own
C3_Reached ==
  /\ ValidationReturned
  /\ best_rule(routing_rules, ret.selection.detected_domain) = 0
  /\ ret.selection.selected_tool = "fetch"
  /\ ret.selection.recommended_tool = "filesystem"

\* C4: calls_remaining of a session never rises from one state to the next
\* (so not across a RecordCall either) and is never below 0, whatever mode
\* and max_calls the session was created with
C4_BudgetMonotone ==
  [][ /\ \A s \in DOMAIN session_metrics' :
           session_metrics'[s].calls_remaining >= 0
      /\ \A s \in DOMAIN session_metrics :
           /\ s \in DOMAIN session_metrics'
           /\ session_metrics'[s].calls_remaining <= session_metrics[s].calls_remaining
    ]_vars

\* C5: initialize_session for an id that is already tracked leaves the whole
\* session map (calls_remaining, total_calls, execution_mode, average and
\* success rate of every session) as it was, and returns
C5_InitIdempotent ==
  [][ (/\ ret'.op = "initialize_session"
       /\ ret'.session_id \in DOMAIN session_metrics)
        => /\ session_metrics' = session_metrics
           /\ db_session_metrics' = db_session_metrics
           /\ ~ret'.raised
    ]_vars

\* C5 witness: a session was initialized again after calls were recorded on
\* it, and its budget is still the consumed one
C5_Witness ==
  /\ ret.op = "initialize_session"
  /\ ret.session_id \in DOMAIN session_metrics
  /\ recorded[ret.session_id] >= 1
  /\ session_metrics[ret.session_id].calls_remaining
       < session_metrics[ret.session_id].total_calls

\* C6: for a serial session created with budget N >= 0, calls_remaining is 0
\* after N recorded calls, and after more than N recorded calls
\* check_performance_constraints reports a violation with a call-limit reason
\* while calls_remaining is still 0
C6_BudgetExceededReported ==
  \A s \in DOMAIN session_metrics :
    LET m == session_metrics[s]
        c == check_performance_constraints(session_metrics, s)
    IN  (m.execution_mode = "serial" /\ m.total_calls >= 0) =>
          /\ recorded[s] = m.total_calls => m.calls_remaining = 0
          /\ recorded[s] > m.total_calls =>
               /\ m.calls_remaining = 0
               /\ c.violation
               /\ "exceeded_call_limit" \in Range(c.violations)

\* C7: a validation that returns has appended exactly one row, which carries
\* the returned decision's session id, domain, recommended tool, selected
\* tool and status; every earlier row is still in place before it
C7_OneRowPerValidation ==
  [][ (ret'.op = "validate_tool_call" /\ ~ret'.raised) =>
        /\ Len(ledger') = Len(ledger) + 1
        /\ SubSeq(ledger', 1, Len(ledger)) = ledger
        /\ LET row == ledger'[Len(ledger')]
               sel == ret'.selection
           IN  /\ row.session_id = sel.session_id
               /\ row.session_id = ret'.session_id
               /\ row.detected_domain = sel.detected_domain
               /\ row.recommended_tool = sel.recommended_tool
               /\ row.selected_tool = sel.selected_tool
               /\ row.selection_status = sel.selection_status
    ]_vars

\* C7 witness: two validations have returned and the ledger holds two rows
C7_Witness ==
  /\ ValidationReturned
  /\ Len(ledger) = 2
  /\ ledger[2] = ret.selection

\* C8: a validation whose ledger append fails still hands its verdict to the
\* caller: validate_tool_call never raises
C8_ValidationNeverRaises ==
  ret.op = "validate_tool_call" =>
    /\ ~ret.raised
    /\ ret.selection.selection_status \in {"compliant", "non_compliant"}

\* C9: the ledger only grows at its end: across every step of every
\* operation the ledger before the step is a prefix of the ledger after it
C9_LedgerAppendOnly ==
  [][ /\ Len(ledger') >= Len(ledger)
      /\ SubSeq(ledger', 1, Len(ledger)) = ledger
    ]_vars

\* C9 witness: a second validation and then a session or analytics operation
\* ran over a ledger that already held a row
C9_Witness ==
  /\ Len(ledger) = 2
  /\ ret.op \in {"get_routing_analytics", "check_performance_constraints",
                 "initialize_session", "track_tool_execution"}

\* C10: track_tool_execution for an id that was never initialized returns
\* without raising, creates no session record and leaves the metrics of every
\* session as they were
C10_UnknownSessionIgnored ==
  [][ (/\ ret'.op = "track_tool_execution"
       /\ ret'.session_id \notin DOMAIN session_metrics)
        => /\ ~ret'.raised
           /\ session_metrics' = session_metrics
           /\ db_session_metrics' = db_session_metrics
           /\ recorded' = recorded
    ]_vars

\* C10 witness: a call was reported for an untracked id while another
\* session, with a call already recorded, is tracked
C10_Witness ==
  /\ ret.op = "track_tool_execution"
  /\ ret.session_id \notin DOMAIN session_metrics
  /\ \E s \in DOMAIN session_metrics : recorded[s] >= 1

\* C11: check_performance_constraints for an id that was never initialized
\* returns the untracked view with no violation flagged, does not raise and
\* creates no session
C11_UnknownSessionCheck ==
  [][ (/\ ret'.op = "check_performance_constraints"
       /\ ret'.session_id \notin DOMAIN session_metrics)
        => /\ ~ret'.raised
           /\ session_metrics' = session_metrics
           /\ db_session_metrics' = db_session_metrics
           /\ LET c == check_performance_constraints(session_metrics', ret'.session_id)
              IN  /\ ~c.tracked
                  /\ ~c.violation
                  /\ c.violations = <<>>
    ]_vars

\* C11 witness: the constraints of an untracked id were checked while another
\* session is tracked
C11_Witness ==
  /\ ret.op = "check_performance_constraints"
  /\ ret.session_id \notin DOMAIN session_metrics
  /\ DOMAIN session_metrics # {}
  /\ ~check_performance_constraints(session_metrics, ret.session_id).violation

\* C12: whatever the interleaving of the threads' track_session_performance
\* and update_session_call calls for one session id, once no call is inside
\* the lock the session's calls_remaining is max(0, max_calls - n), n being
\* the update_session_call calls that have returned, and at most one record
\* exists for the id
C12_NoLostUpdate ==
  (session_lock = "None" /\ \A t \in Threads : threads[t].pc \in {"idle", "acquire"}) =>
    /\ Cardinality(DOMAIN session_metrics) <= 1
    /\ \A s \in DOMAIN session_metrics :
         LET n == SumRecorded([t \in Threads |-> threads[t].updates], Threads)
             m == session_metrics[s]
         IN  m.calls_remaining =
               IF m.total_calls - n > 0 THEN m.total_calls - n ELSE 0

\* C12 failing case reached: an update_session_call returned before the
\* session existed, and the session created afterwards still has its whole
\* budget
C12_Reached ==
  /\ session_lock = "None"
  /\ \E t \in Threads : threads[t].updates = 1
  /\ \E s \in DOMAIN session_metrics :
       /\ recorded[s] = 0
       /\ session_metrics[s].total_calls = 2
       /\ session_metrics[s].calls_remaining = 2

\* an analytics call has just returned
AnalyticsReturned ==
  ret.op = "get_routing_analytics"

\* C13: whenever the window holds at least one ledger row, the report's
\* total_decisions is the number of rows in the window and the totals of
\* domain_statistics add up to it
C13_DomainTotalsAddUp ==
  AnalyticsReturned =>
    \A d \in DaysBack :
      LET rows == decisions_since(ledger, now - d)
          report == routing_analytics(ledger, now, d, TRUE)
      IN  Len(rows) >= 1 =>
            /\ report.error = "None"
            /\ report.total_decisions = Len(rows)
            /\ SumOver([x \in DOMAIN report.domain_statistics |->
                          report.domain_statistics[x].total],
                       DOMAIN report.domain_statistics) = report.total_decisions

\* C14: for a window with n >= 1 rows of which c are compliant, the report's
\* compliance_rate is 100 * c / n, rows older than the window left out
C14_ComplianceRate ==
  AnalyticsReturned =>
    \A d \in DaysBack :
      LET rows == decisions_since(ledger, now - d)
          c == Len(SelectSeq(rows, LAMBDA x : x.selection_status = "compliant"))
          report == routing_analytics(ledger, now, d, TRUE)
      IN  Len(rows) >= 1 =>
            /\ report.error = "None"
            /\ report.compliance_rate = Rat(100 * c, Len(rows))

\* C15: for a window without rows the report is an empty report, not an
\* error outcome: no error, zero decisions, no statistics, no recommendations
C15_EmptyWindowReport ==
  AnalyticsReturned =>
    \A d \in DaysBack :
      LET rows == decisions_since(ledger, now - d)
          report == routing_analytics(ledger, now, d, TRUE)
      IN  Len(rows) = 0 =>
            /\ report.error = "None"
            /\ report.total_decisions = 0
            /\ report.recommendations = {}

\* C16: when a tool was selected in more than 5 rows of the window, the report
\* has recommendations, with a poor_tool_performance entry for the tool
\* exactly when fewer than 60% of its rows succeeded and a slow_tool entry
\* exactly when the average of its execution times is above 10000 ms
C16_ToolRecommendations ==
  AnalyticsReturned =>
    \A d \in DaysBack :
      LET rows == decisions_since(ledger, now - d)
          report == routing_analytics(ledger, now, d, TRUE)
          used(tool) == SelectSeq(rows, LAMBDA x : x.selected_tool = tool)
          succeeded(tool) == SelectSeq(used(tool), LAMBDA x : x.success)
          timed(tool) == SelectSeq(used(tool), LAMBDA x : x.execution_time_ms # "None")
          time_sum(tool) == SumOver([i \in 1..Len(timed(tool)) |->
                                       timed(tool)[i].execution_time_ms],
                                    1..Len(timed(tool)))
      IN  \A tool \in {rows[i].selected_tool : i \in 1..Len(rows)} :
            Len(used(tool)) > 5 =>
              /\ report.error = "None"
              /\ <<"poor_tool_performance", tool>> \in report.recommendations
                   <=> 100 * Len(succeeded(tool)) < 60 * Len(used(tool))
              /\ <<"slow_tool", tool>> \in report.recommendations
                   <=> (Len(timed(tool)) > 0 /\ time_sum(tool) > 10000 * Len(timed(tool)))

\* C17: for every domain with a row in the window the report's
\* recommendations hold a low_compliance entry exactly when fewer than 80% of
\* the domain's rows are compliant and a low_success_rate entry exactly when
\* fewer than 70% of them succeeded
C17_DomainRecommendations ==
  AnalyticsReturned =>
    \A d \in DaysBack :
      LET rows == decisions_since(ledger, now - d)
          report == routing_analytics(ledger, now, d, TRUE)
          of_domain(dom) == SelectSeq(rows, LAMBDA x : x.detected_domain = dom)
          compliant(dom) == SelectSeq(of_domain(dom), LAMBDA x : x.selection_status = "compliant")
          succeeded(dom) == SelectSeq(of_domain(dom), LAMBDA x : x.success)
      IN  \A dom \in {rows[i].detected_domain : i \in 1..Len(rows)} :
            /\ report.error = "None"
            /\ <<"low_compliance", dom>> \in report.recommendations
                 <=> 100 * Len(compliant(dom)) < 80 * Len(of_domain(dom))
            /\ <<"low_success_rate", dom>> \in report.recommendations
                 <=> 100 * Len(succeeded(dom)) < 70 * Len(of_domain(dom))

TopScorers(task, context) ==
  LET scores == domain_scores[task, context]
  IN  {PatternDomains[i] : i \in {k \in 1..Len(scores) :
                                   \A j \in 1..Len(scores) : scores[j] <= scores[k]}}

\* every domain scores 0 on the input
AllZero(task, context) ==
  \A i \in 1..Len(PatternDomains) : domain_scores[task, context][i] = 0

\* C19: when two or more domains share the highest positive score,
\* detect_domain returns the tied domain with the smallest
\* _get_domain_priority value
C19_TieByPriority ==
  ret.op = "detect_domain" =>
    LET tied == TopScorers(ret.task, ret.context)
    IN  (~AllZero(ret.task, ret.context) /\ Cardinality(tied) >= 2) =>
          /\ ret.domain \in tied
          /\ \A d \in tied : get_domain_priority(ret.domain) <= get_domain_priority(d)

\* C19 failing case reached: "scrape google" scores 1 for WEB_SCRAPING and for
\* WEB_SEARCH, and detect_domain returned WEB_SCRAPING (priority 6, not 2)
C19_Reached ==
  /\ ret.op = "detect_domain"
  /\ TopScorers(ret.task, ret.context) = {"WEB_SCRAPING", "WEB_SEARCH"}
  /\ ret.domain = "WEB_SCRAPING"

\* C20: detect_domain returns UNKNOWN exactly on the inputs on which every
\* domain scores 0, and for such an input validate_tool_selection builds a
\* decision with domain UNKNOWN, the default rule's preferred tool as the
\* recommendation and a verdict, whatever tool was selected
C20_UnknownIffAllZero ==
  /\ ret.op = "detect_domain" =>
       (ret.domain = "UNKNOWN" <=> AllZero(ret.task, ret.context))
  /\ \A t \in Tasks, c \in Contexts, tool \in Tools :
       AllZero(t, c) =>
         LET sel == tool_selection(routing_rules, "s1", "cline", t, c, tool, now)
         IN  /\ sel.detected_domain = "UNKNOWN"
             /\ sel.recommended_tool = default_rule.preferred_tool
             /\ sel.recommended_tool = "filesystem"
             /\ sel.selection_status \in {"compliant", "non_compliant"}
  /\ ValidationReturned =>
       (ret.selection.detected_domain = "UNKNOWN" =>
          /\ ret.selection.recommended_tool = "filesystem"
          /\ ret.selection.selection_status \in {"compliant", "non_compliant"}
          /\ \E c \in Contexts : AllZero(ret.selection.task_description, c))

\* C20 witness: a task on which every domain scores 0 was classified UNKNOWN
\* and then validated, with filesystem recommended
C20_Witness ==
  /\ ValidationReturned
  /\ ret.selection.detected_domain = "UNKNOWN"
  /\ ret.selection.recommended_tool = "filesystem"
  /\ \E k \in DOMAIN classified :
       /\ k[1] = ret.selection.task_description
       /\ AllZero(k[1], k[2])
       /\ classified[k].domain = "UNKNOWN"

\* C21: for every domain get_routing_recommendation returns the preferred
\* tool of a smallest-priority loaded rule of that domain, and when no rule
\* has the domain the preferred tool of the default UNKNOWN rule, which every
\* loaded rule set contains; the recommendation of every returned validation
\* is that tool
C21_RecommendationRule ==
  LET of_domain(d) == {i \in 1..Len(routing_rules) : routing_rules[i].domain = d}
      expected(d, tool) ==
        IF of_domain(d) # {}
        THEN \E i \in of_domain(d) :
               /\ \A k \in of_domain(d) :
                    routing_rules[i].priority <= routing_rules[k].priority
               /\ tool = routing_rules[i].preferred_tool
        ELSE \E i \in of_domain("UNKNOWN") :
               tool = routing_rules[i].preferred_tool
  IN  /\ of_domain("UNKNOWN") # {}
      /\ \A d \in Range(Domain) : expected(d, recommended_tool(routing_rules, d))
      /\ ValidationReturned =>
           expected(ret.selection.detected_domain, ret.selection.recommended_tool)

\* C21 witness: a validation returned for a domain without a rule of its own
\* and recommended the default rule's tool, while another domain has a rule
C21_Witness ==
  /\ ValidationReturned
  /\ ret.selection.detected_domain # "UNKNOWN"
  /\ best_rule(routing_rules, ret.selection.detected_domain) = 0
  /\ ret.selection.recommended_tool = "filesystem"
  /\ routing_rules[1].preferred_tool # "filesystem"

\* C22: in every rule of a started engine the preferred tool is not a
\* forbidden tool and no tool is both an alternative and a forbidden tool
C22_RulesWellFormed ==
  \A i \in 1..Len(routing_rules) :
    /\ routing_rules[i].preferred_tool \notin Range(routing_rules[i].forbidden_tools)
    /\ Range(routing_rules[i].alternative_tools)
         \cap Range(routing_rules[i].forbidden_tools) = {}

\* C22 failing case reached: the started engine holds a GITHUB rule that
\* lists fetch both as an alternative and as a forbidden tool, and the rule
\* has been used by a validation
C22_Reached ==
  /\ ValidationReturned
  /\ ret.selection.detected_domain = "GITHUB"
  /\ \E i \in 1..Len(routing_rules) :
       /\ routing_rules[i].domain = "GITHUB"
       /\ "fetch" \in Range(routing_rules[i].alternative_tools)
       /\ "fetch" \in Range(routing_rules[i].forbidden_tools)

\* C24: a returned validation allows and suggests by verdict and mode:
\* compliant gives (TRUE, None) in every mode; non-compliant gives (FALSE,
\* recommended) in block, (TRUE, recommended) in suggest, (TRUE, None) in
\* warn; so allow is FALSE only in block mode on a non-compliant verdict, and
\* is_compliant is TRUE exactly when the status is compliant
C24_EnforcementMapping ==
  ValidationReturned =>
    LET status == ret.selection.selection_status
        recommended == ret.selection.recommended_tool
        outcome == <<ret.should_allow, ret.suggested_tool>>
    IN  /\ status \in {"compliant", "non_compliant"}
        /\ enforcement_mode \in {"block", "suggest", "warn"}
        /\ status = "compliant" => outcome = <<TRUE, "None">>
        /\ (status = "non_compliant" /\ enforcement_mode = "block")
             => outcome = <<FALSE, recommended>>
        /\ (status = "non_compliant" /\ enforcement_mode = "suggest")
             => outcome = <<TRUE, recommended>>
        /\ (status = "non_compliant" /\ enforcement_mode = "warn")
             => outcome = <<TRUE, "None">>
        /\ ~ret.should_allow
             <=> (enforcement_mode = "block" /\ status = "non_compliant")
        /\ ret.is_compliant <=> status = "compliant"

\* C24 witness: a non-compliant selection was validated in suggest mode,
\* allowed, and answered with the recommended tool
C24_Witness ==
  /\ ValidationReturned
  /\ enforcement_mode = "suggest"
  /\ ret.selection.selection_status = "non_compliant"
  /\ ret.should_allow
  /\ ret.suggested_tool = ret.selection.recommended_tool
  /\ ~ret.is_compliant

\* C29: with a WEB_SEARCH rule loaded (preferred brave-search, fetch
\* forbidden), a validation of "Search for Python tutorials online" detects
\* WEB_SEARCH and recommends brave-search; brave-search is compliant and
\* fetch is non-compliant
C29_ScenarioA ==
  (/\ ValidationReturned
   /\ ret.selection.task_description = "T_tutorials"
   /\ \E i \in 1..Len(routing_rules) :
        /\ routing_rules[i].domain = "WEB_SEARCH"
        /\ routing_rules[i].preferred_tool = "brave-search"
        /\ "fetch" \in Range(routing_rules[i].forbidden_tools))
    => /\ ret.selection.detected_domain = "WEB_SEARCH"
       /\ ret.selection.recommended_tool = "brave-search"
       /\ ret.selection.selected_tool = "brave-search"
            => ret.selection.selection_status = "compliant"
       /\ ret.selection.selected_tool = "fetch"
            => ret.selection.selection_status = "non_compliant"

\* C29 failing case reached: with the WEB_SEARCH rule loaded the task was
\* classified UNKNOWN, filesystem was recommended and fetch was compliant
C29_Reached ==
  /\ ValidationReturned
  /\ ret.selection.task_description = "T_tutorials"
  /\ best_rule(routing_rules, "WEB_SEARCH") # 0
  /\ ret.selection.detected_domain = "UNKNOWN"
  /\ ret.selection.recommended_tool = "filesystem"
  /\ ret.selection.selected_tool = "fetch"
  /\ ret.selection.selection_status = "compliant"

\* C23: after k >= 1 recorded calls on an initialized session, k within the
\* budget, success_rate is 100 * (calls recorded with success = True) /
\* (total_calls - calls_remaining)
C23_SuccessRate ==
  \A s \in DOMAIN session_metrics :
    LET m == session_metrics[s]
    IN  (/\ recorded[s] >= 1
         /\ recorded[s] <= m.total_calls)
          => m.success_rate = Rat(100 * successes[s], m.total_calls - m.calls_remaining)

\* C23 failing case reached: one call was recorded, with success = True, and
\* success_rate is 200
C23_Reached ==
  \E s \in DOMAIN session_metrics :
    /\ recorded[s] = 1
    /\ successes[s] = 1
    /\ session_metrics[s].total_calls - session_metrics[s].calls_remaining = 1
    /\ session_metrics[s].success_rate = RInt(200)

\* C25: in every state check_performance_constraints reports a violation
\* with the execution-mode reason for a session whose mode is not serial, and
\* no violation for a serial session whose recorded calls are within its budget
C25_ModeViolation ==
  \A s \in DOMAIN session_metrics :
    LET m == session_metrics[s]
        report == check_performance_constraints(session_metrics, s)
    IN  /\ m.execution_mode # "serial" =>
             /\ report.violation
             /\ "non_serial_execution_mode" \in Range(report.violations)
        /\ (m.execution_mode = "serial" /\ recorded[s] <= m.total_calls) =>
             ~report.violation

\* C25 witness: check_performance_constraints returned for a parallel session
\* with a recorded call and budget left, and for a tracked serial session
\* within its budget
C25_Witness ==
  /\ ret.op = "check_performance_constraints"
  /\ ret.session_id \in DOMAIN session_metrics
  /\ session_metrics[ret.session_id].execution_mode = "parallel"
  /\ recorded[ret.session_id] >= 1
  /\ session_metrics[ret.session_id].calls_remaining > 0
  /\ \E s \in DOMAIN session_metrics :
       /\ session_metrics[s].execution_mode = "serial"
       /\ recorded[s] <= session_metrics[s].total_calls

\* C26: track_tool_execution never raises and every call it records is
\* counted against the budget down to 0 and no further; a returned
\* validation's decision is the one the rules give for its task and tool, and
\* it is refused only in block mode on a non-compliant verdict, whatever the
\* session's calls_remaining and execution mode
C26_AdvisoryOnly ==
  /\ ret.op = "track_tool_execution" => ~ret.raised
  /\ \A s \in DOMAIN session_metrics :
       recorded[s] >= 1 =>
         session_metrics[s].calls_remaining =
           IF session_metrics[s].total_calls - recorded[s] > 0
           THEN session_metrics[s].total_calls - recorded[s] ELSE 0
  /\ ValidationReturned =>
       /\ \E c \in Contexts :
            ret.selection =
              tool_selection(routing_rules, ret.session_id, ret.selection.agent_type,
                             ret.selection.task_description, c,
                             ret.selection.selected_tool, now)
       /\ ~ret.should_allow =>
            /\ enforcement_mode = "block"
            /\ ret.selection.selection_status = "non_compliant"
       /\ ret.selection.selection_status = "compliant" => ret.should_allow

\* C26 witness: a validation returned and allowed the call of a session that
\* has no call left and is not serial, which check_performance_constraints
\* reports as a violation
C26_Witness ==
  /\ ValidationReturned
  /\ ret.should_allow
  /\ ret.session_id \in DOMAIN session_metrics
  /\ session_metrics[ret.session_id].calls_remaining = 0
  /\ session_metrics[ret.session_id].execution_mode # "serial"
  /\ check_performance_constraints(session_metrics, ret.session_id).violation

\* C27: total_calls counts the calls made: a session starts with
\* total_calls = 0 and calls_remaining = max_calls, and a recorded call adds 1
\* to total_calls and takes 1 from calls_remaining
C27_TotalCallsCounts ==
  [][ \A s \in DOMAIN session_metrics' :
        /\ s \notin DOMAIN session_metrics =>
             /\ session_metrics'[s].total_calls = 0
             /\ session_metrics'[s].calls_remaining \in MaxCallsValues
        /\ (/\ s \in DOMAIN session_metrics
            /\ recorded'[s] = recorded[s] + 1
            /\ session_metrics[s].calls_remaining > 0) =>
             /\ session_metrics'[s].total_calls = session_metrics[s].total_calls + 1
             /\ session_metrics'[s].calls_remaining =
                  session_metrics[s].calls_remaining - 1 ]_vars

\* C27 failing case reached: a session created with max_calls = 2 has
\* total_calls = 2 after one recorded call, with calls_remaining = 1
C27_Reached ==
  \E s \in DOMAIN session_metrics :
    /\ recorded[s] = 1
    /\ session_metrics[s].execution_mode = "serial"
    /\ session_metrics[s].total_calls = 2
    /\ session_metrics[s].calls_remaining = 1

\* C28: a session created by create_agent_configuration has a budget of 8,
\* and after n <= 8 monitored tool selections check_performance_constraints
\* reports calls_remaining = 8 - n for it: each monitored selection takes
\* exactly one call
C28_MonitorConsumesOne ==
  /\ \A s \in DOMAIN active_agents :
       /\ s \in DOMAIN session_metrics
       /\ session_metrics[s].total_calls = 8
       /\ decisions_of(ledger, s) <= 8 =>
            check_performance_constraints(session_metrics, s).calls_remaining
              = 8 - decisions_of(ledger, s)
  /\ (/\ ret.op = "agent_check_performance_constraints"
      /\ ret.error = "None"
      /\ decisions_of(ledger, ret.session_id) <= 8) =>
       ret.report.calls_remaining = 8 - decisions_of(ledger, ret.session_id)

\* C28 witness: after 5 monitored selections of a session
\* check_performance_constraints reported 3 calls remaining, while another
\* session had 3 selections monitored
C28_Witness ==
  /\ ret.op = "agent_check_performance_constraints"
  /\ ret.error = "None"
  /\ decisions_of(ledger, ret.session_id) = 5
  /\ ret.report.calls_remaining = 3
  /\ \E s \in DOMAIN active_agents \ {ret.session_id} :
       decisions_of(ledger, s) = 3

\* C30: constructing the engine from a missing or malformed rule source
\* raises and leaves no engine and no middleware instance; while there is no
\* instance no validation or session operation has run and nothing was
\* recorded, and an instance that exists holds the default rule
C30_ConstructionHardFails ==
  [][ /\ (/\ ret'.op = "get_middleware"
          /\ ret' # ret
          /\ routing_rules = <<>>
          /\ ret'.config \in {"missing", "malformed", "empty"})
           => /\ ret'.raised
              /\ routing_rules' = <<>>
      /\ routing_rules' = <<>> =>
           /\ ret'.op \in {"import", "get_middleware"}
           /\ ret'.op = "get_middleware" => ret'.raised
           /\ session_metrics' = <<>>
           /\ ledger' = <<>>
      /\ routing_rules' # <<>> =>
           \E i \in 1..Len(routing_rules') : routing_rules'[i].domain = "UNKNOWN"
    ]_vars

\* C30 witness: get_middleware raised on a missing config file, no instance
\* exists, and nothing has been validated or tracked
C30_Witness ==
  /\ ret.op = "get_middleware"
  /\ ret.config = "missing"
  /\ ret.raised
  /\ routing_rules = <<>>
  /\ ledger = <<>>
  /\ session_metrics = <<>>

\* C31: the rule whose alternatives and forbidden tools decide a validation
\* is the rule whose preferred tool is recommended; when the detected domain
\* has no rule that is the default UNKNOWN rule, so selecting fetch or httpie
\* for such a domain is compliant
C31_SameRule ==
  ValidationReturned =>
    LET sel == ret.selection
        r == resolved_rule(routing_rules, sel.detected_domain)
        rule == routing_rules[r]
    IN  /\ r # 0
        /\ sel.recommended_tool = rule.preferred_tool
        /\ sel.selection_status = "compliant" <=>
             /\ sel.selected_tool \notin Range(rule.forbidden_tools)
             /\ \/ sel.selected_tool = rule.preferred_tool
                \/ sel.selected_tool \in Range(rule.alternative_tools)
        /\ (/\ best_rule(routing_rules, sel.detected_domain) = 0
            /\ sel.selected_tool \in {"fetch", "httpie"})
             => sel.selection_status = "compliant"

\* C31 failing case reached: for a domain other than UNKNOWN that has no rule
\* the default rule's filesystem was recommended, and its alternative fetch
\* was judged non-compliant and stored so
C31_Reached ==
  /\ ValidationReturned
  /\ ret.selection.detected_domain # "UNKNOWN"
  /\ best_rule(routing_rules, ret.selection.detected_domain) = 0
  /\ ret.selection.recommended_tool = default_rule.preferred_tool
  /\ ret.selection.selected_tool \in Range(default_rule.alternative_tools)
  /\ ret.selection.selection_status = "non_compliant"
  /\ ledger[Len(ledger)].selection_status = "non_compliant"

\* C32: every row of the ledger has status compliant or non_compliant, and
\* the row a returned validation stored carries the status it returned
C32_TwoStatuses ==
  /\ \A i \in 1..Len(ledger) :
       ledger[i].selection_status \in {"compliant", "non_compliant"}
  /\ ValidationReturned =>
       /\ ret.selection.selection_status \in {"compliant", "non_compliant"}
       /\ ledger # <<>>
       /\ ledger[Len(ledger)].selection_status = ret.selection.selection_status
       /\ ledger[Len(ledger)].selected_tool = ret.selection.selected_tool
       /\ ledger[Len(ledger)].session_id = ret.session_id

\* C32 witness: the ledger holds a compliant and a non-compliant row, the
\* second one from the validation that just returned non_compliant
C32_Witness ==
  /\ ValidationReturned
  /\ Len(ledger) = 2
  /\ ledger[1].selection_status = "compliant"
  /\ ledger[2].selection_status = "non_compliant"
  /\ ret.selection.selection_status = "non_compliant"

\* C33: enforcement_mode is warn after construction and always one of warn,
\* block, suggest; set_enforcement_mode raises exactly for a value outside
\* that set and then leaves enforcement_mode as it was, and otherwise sets it
\* to the value given
C33_EnforcementModeValid ==
  [][ /\ enforcement_mode \in {"warn", "block", "suggest"}
      /\ enforcement_mode' \in {"warn", "block", "suggest"}
      /\ ret.op = "__init__" => enforcement_mode = "warn"
      /\ (ret'.op = "set_enforcement_mode" /\ ret' # ret) =>
           /\ ret'.raised <=> ret'.mode \notin {"warn", "block", "suggest"}
           /\ ret'.raised => enforcement_mode' = enforcement_mode
           /\ ~ret'.raised => enforcement_mode' = ret'.mode
    ]_vars

\* C33 witness: set_enforcement_mode raised on "strict" after the mode had
\* been set to block, and the mode is still block
C33_Witness ==
  /\ ret.op = "set_enforcement_mode"
  /\ ret.raised
  /\ ret.mode = "strict"
  /\ enforcement_mode = "block"

\* C34: success_rate of every tracked session is at least 0 and at most 100
\* in every state, whatever calls were recorded and with whatever outcomes
C34_SuccessRateInRange ==
  \A s \in DOMAIN session_metrics :
    /\ ~RLess(session_metrics[s].success_rate, RInt(0))
    /\ ~RLess(RInt(100), session_metrics[s].success_rate)

\* C34 failing case reached: after two recorded calls of a session its
\* success_rate is above 100
C34_Reached ==
  \E s \in DOMAIN session_metrics :
    /\ recorded[s] = 2
    /\ RLess(RInt(100), session_metrics[s].success_rate)

\* C38: the row of table session_metrics of every tracked session holds the
\* calls_remaining, average_execution_time and success_rate of the session's
\* record in memory
C38_RowMatchesMemory ==
  \A s \in DOMAIN session_metrics :
    /\ s \in DOMAIN db_session_metrics
    /\ db_session_metrics[s].calls_remaining = session_metrics[s].calls_remaining
    /\ db_session_metrics[s].average_execution_time
         = session_metrics[s].average_execution_time
    /\ db_session_metrics[s].success_rate = session_metrics[s].success_rate

\* C38 failing case reached: a session whose row was written at creation has
\* a recorded call, and the row still holds the calls_remaining and the
\* average of the creation
C38_Reached ==
  \E s \in DOMAIN session_metrics \cap DOMAIN db_session_metrics :
    /\ recorded[s] = 1
    /\ db_session_metrics[s].calls_remaining = session_metrics[s].calls_remaining + 1
    /\ db_session_metrics[s].average_execution_time = RInt(0)
    /\ session_metrics[s].average_execution_time = RInt(100)

\* C35: a validation step and an analytics step leave routing_rules, every
\* session's metrics, the set of tracked sessions and the calls recorded as
\* they were; validating for a session id neither creates the session nor
\* takes a call from its budget
C35_ValidationFrame ==
  [][ (/\ ret'.op \in {"validate_tool_call", "get_routing_analytics"}
       /\ ret' # ret \/ ledger' # ledger)
        => /\ routing_rules' = routing_rules
           /\ session_metrics' = session_metrics
           /\ DOMAIN session_metrics' = DOMAIN session_metrics
           /\ db_session_metrics' = db_session_metrics
           /\ recorded' = recorded ]_vars

\* C35 witness: a validation returned and stored its row for a session id
\* that is not tracked, while another session is tracked with its full budget
C35_Witness ==
  /\ ValidationReturned
  /\ ledger # <<>>
  /\ ledger[Len(ledger)].session_id = ret.session_id
  /\ ret.session_id \notin DOMAIN session_metrics
  /\ \E s \in DOMAIN session_metrics :
       /\ s # ret.session_id
       /\ session_metrics[s].calls_remaining = session_metrics[s].total_calls
       /\ session_metrics[s].total_calls > 0

\* C36: every ledger row has success = TRUE and no execution time, whatever
\* outcomes were reported through track_tool_execution, and for every
\* non-empty window the analytics report has success_rate 100 and, for every
\* tool of the window, success_rate 100 and average_execution_time 0
C36_OutcomesNotInLedger ==
  /\ \A i \in 1..Len(ledger) :
       /\ ledger[i].success
       /\ ledger[i].execution_time_ms = "None"
  /\ AnalyticsReturned =>
       \A d \in DaysBack :
         LET rows == decisions_since(ledger, now - d)
             report == routing_analytics(ledger, now, d, TRUE)
         IN  rows # <<>> =>
               /\ report.error = "None"
               /\ report.success_rate = RInt(100)
               /\ \A i \in 1..Len(rows) :
                    /\ rows[i].selected_tool \in DOMAIN report.tool_effectiveness
                    /\ report.tool_effectiveness[rows[i].selected_tool].success_rate
                         = RInt(100)
                    /\ report.tool_effectiveness[rows[i].selected_tool].average_execution_time
                         = RInt(0)

\* C36 failing case reached: a failed call was reported for a session, all
\* six ledger rows still say success, and the analytics over them returned
\* the failure report instead of a success rate
C36_Reached ==
  /\ AnalyticsReturned
  /\ Len(ledger) = 6
  /\ \A i \in 1..Len(ledger) : ledger[i].success
  /\ \E s \in DOMAIN session_metrics : recorded[s] > successes[s]
  /\ routing_analytics(ledger, now, 1, TRUE).error = "Analysis failed"

\* C39: a tracked session stays in the engine's session map from one state
\* to the next with its budget and mode, and its calls_remaining stays or
\* goes down by one, never up: cleanup_session does not remove it and a
\* create_agent_configuration for its id does not give it a fresh budget
C39_SessionNeverReset ==
  [][ \A s \in DOMAIN session_metrics :
        /\ s \in DOMAIN session_metrics'
        /\ session_metrics'[s].total_calls = session_metrics[s].total_calls
        /\ session_metrics'[s].execution_mode = session_metrics[s].execution_mode
        /\ session_metrics'[s].calls_remaining <= session_metrics[s].calls_remaining
        /\ session_metrics'[s].calls_remaining >= session_metrics[s].calls_remaining - 1
        /\ ret'.op \in {"cleanup_session", "create_agent_configuration"}
             => session_metrics'[s] = session_metrics[s] ]_vars

\* C39 witness: cleanup_session returned for a session that has had calls
\* monitored; it is no longer an active agent and is still tracked with the
\* budget it has left
C39_Witness ==
  /\ ret.op = "cleanup_session"
  /\ ret.session_id \notin DOMAIN active_agents
  /\ ret.session_id \in DOMAIN session_metrics
  /\ recorded[ret.session_id] = 3
  /\ session_metrics[ret.session_id].calls_remaining = 5

\* C40: a handled request first initializes its session, then validates,
\* then tracks: the session is tracked afterwards even when the validation
\* raised, a request whose validation does not allow the call is answered
\* with error code -32001 and leaves the session's calls_remaining as it was
\* (8 for a session the request created), and an allowed request takes
\* exactly one call from it when it was above 0
C40_HandlerOrder ==
  [][ (/\ ret'.op = "example_tool_call_handler"
       /\ ret' # ret \/ ledger' # ledger \/ session_metrics' # session_metrics)
        => LET s == ret'.session_id
               before == IF s \in DOMAIN session_metrics
                         THEN session_metrics[s].calls_remaining ELSE 8
           IN  /\ s \in DOMAIN session_metrics'
               /\ ret'.raised =>
                    /\ session_metrics'[s].calls_remaining = before
                    /\ ledger' = ledger
               /\ ~ret'.raised =>
                    /\ Len(ledger') = Len(ledger) + 1
                    /\ ret'.error_code = -32001 <=> ~ret'.should_allow
                    /\ ~ret'.should_allow <=>
                         /\ enforcement_mode = "block"
                         /\ ledger'[Len(ledger')].selection_status = "non_compliant"
                    /\ ~ret'.should_allow =>
                         /\ session_metrics'[s].calls_remaining = before
                         /\ recorded' = recorded
                    /\ ret'.should_allow =>
                         /\ before > 0 =>
                              session_metrics'[s].calls_remaining = before - 1
                         /\ recorded'[s] = recorded[s] + 1 ]_vars

\* C40 witness: in block mode a request was answered with error -32001 for a
\* session that an earlier allowed request had created and taken one call
\* from: calls_remaining is still 7
C40_Witness ==
  /\ ret.op = "example_tool_call_handler"
  /\ ~ret.raised
  /\ ret.error_code = -32001
  /\ enforcement_mode = "block"
  /\ Len(ledger) = 2
  /\ recorded[ret.session_id] = 1
  /\ session_metrics[ret.session_id].calls_remaining = 7

\* C37: the calls_remaining, average_execution_time and success_rate that a
\* check_performance_constraints call returns for a tracked session are
\* those of the session between completed update_session_call calls: of the
\* record as it was before the update in progress, or as it is after it
C37_ConsistentSnapshot ==
  [][ (/\ ret'.op = "check_performance_constraints"
       /\ ret' # ret
       /\ threads' = threads
       /\ ret'.session_id \in DOMAIN session_metrics)
        => LET s == ret'.session_id
               busy == {t \in Threads :
                          /\ threads[t].pc \in {"body_average", "body_rate"}
                          /\ threads[t].session_id = s}
               snapshots ==
                 IF busy = {} THEN {session_metrics[s]}
                 ELSE UNION {{threads[t].before,
                              updated_metrics(threads[t].before,
                                              threads[t].execution_time_ms,
                                              threads[t].success)} : t \in busy}
           IN  \E m \in snapshots :
                 /\ ret'.report.calls_remaining = m.calls_remaining
                 /\ ret'.report.average_execution_time = m.average_execution_time
                 /\ ret'.report.success_rate = m.success_rate ]_vars

\* C37 failing case reached: check_performance_constraints returned while a
\* thread was between the assignments of update_session_call: the report has
\* the new calls_remaining with the old average_execution_time
C37_Reached ==
  /\ ret.op = "check_performance_constraints"
  /\ \E t \in Threads :
       /\ threads[t].pc = "body_average"
       /\ threads[t].session_id = ret.session_id
       /\ threads[t].execution_time_ms = 100
       /\ ret.report.calls_remaining = threads[t].before.calls_remaining - 1
       /\ ret.report.average_execution_time = threads[t].before.average_execution_time
       /\ ret.report.average_execution_time = RInt(0)

====
